---- MODULE Spec2Model ----
(***************************************************************************)
(* The AI 3D-model job pipeline of menuz (server.js): the job store, the   *)
(* linked items, the upload directory, and the handlers that create, edit, *)
(* start, sync and delete model jobs.                                      *)
(*                                                                         *)
(* Strings that the code inspects (URLs, upload paths, file names) are     *)
(* kept in parsed form, a record [scheme, dir, id, ext], so that the       *)
(* prefix and extension tests of the code are tests on fields.  Status and *)
(* provider words are plain strings; case conversion is tabulated over the *)
(* words the model uses.                                                   *)
(***************************************************************************)
EXTENDS Integers, Sequences, FiniteSets, TLC

VARIABLES
  inflight,    \* requests that requireAuth let in and whose handler has not run yet
  meshyKey,    \* process.env.MESHY_API_KEY is set
  items,       \* db.items, keyed by id
  modelJobs,   \* db.modelJobs, keyed by id
  files,       \* the uploads directory: stored path -> content
  lastOp       \* the last request handled and the response it produced

vars == <<inflight, meshyKey, items, modelJobs, files, lastOp>>

----------------------------------------------------------------------------
(* Bounds of the model *)

MaxRefs == 1        \* reference images kept per job
MaxScans == 1       \* scans kept per item
MaxUuid == 9        \* pool from which fresh random ids are drawn
MaxDrawnRefs == 5   \* reference images of a job drawn for an initial store
MaxDrawnScans == 2  \* scans of an item drawn for an initial store

(* Program constants *)

MESHY_MAX_REFERENCE_IMAGES == 4

----------------------------------------------------------------------------
(* Parsed strings *)

Str(scheme, dir, id, ext) == [scheme |-> scheme, dir |-> dir, id |-> id, ext |-> ext]

Empty == Str("", "", "", "")                 \* the empty string ""
Undefined == Str("undefined", "", "", "")    \* a field absent from a request body

Truthy(value) == value # Empty /\ value # Undefined

toLowerCase(s) ==
  CASE s = "PUBLICADO" -> "publicado"
    [] s = "Revisao" -> "revisao"
    [] s = "MESHY" -> "meshy"
    [] s = ".JPG" -> ".jpg"
    [] s = ".PNG" -> ".png"
    [] s = ".GIF" -> ".gif"
    [] OTHER -> s

toUpperCase(s) ==
  CASE s = "succeeded" -> "SUCCEEDED"
    [] s = "Completed" -> "COMPLETED"
    [] s = "failed" -> "FAILED"
    [] s = "error" -> "ERROR"
    [] s = "canceled" -> "CANCELED"
    [] s = "Cancelled" -> "CANCELLED"
    [] s = "in_progress" -> "IN_PROGRESS"
    [] s = "pending" -> "PENDING"
    [] s = "Succeeded" -> "SUCCEEDED"
    [] s = "completed" -> "COMPLETED"
    [] s = "Failed" -> "FAILED"
    [] s = "Error" -> "ERROR"
    [] s = "Canceled" -> "CANCELED"
    [] s = "cancelled" -> "CANCELLED"
    [] s = "expired" -> "EXPIRED"
    [] OTHER -> s

IMAGE_EXTENSIONS == {".jpg", ".jpeg", ".png", ".webp"}

extensionToMime(ext) ==
  LET value == toLowerCase(ext) IN
  IF value = ".jpg" \/ value = ".jpeg" THEN "image/jpeg"
  ELSE IF value = ".png" THEN "image/png"
  ELSE IF value = ".webp" THEN "image/webp"
  ELSE ""

isRemoteHttpUrl(value) == value.scheme \in {"http://", "https://", "HTTPS://"}

fileExt(filename) == toLowerCase(filename.ext)

\* "/uploads/<dir>/<id><ext>" maps to the file of the same name under UPLOADS_DIR
urlToUploadFilePath(urlValue) ==
  IF urlValue = Empty \/ urlValue.scheme # "/uploads/" THEN Empty ELSE urlValue

RECURSIVE Reverse(_)
Reverse(s) == IF s = <<>> THEN <<>> ELSE Append(Reverse(Tail(s)), Head(s))

Range(s) == {s[i] : i \in 1..Len(s)}

----------------------------------------------------------------------------
(* Users, restaurants, providers *)

Restaurants == {"r1", "r2"}

Users == {
  [id |-> "u-master", role |-> "master", restaurantId |-> ""],
  [id |-> "u-r1", role |-> "client", restaurantId |-> "r1"],
  [id |-> "u-r2", role |-> "client", restaurantId |-> "r2"] }

\* the owner of restaurant r1 and a client of another restaurant
Clients == {u \in Users : u.role = "client"}

Owner == CHOOSE u \in Users : u.restaurantId = "r1"

canAccessRestaurant(user, restaurantId) ==
  user.role = "master" \/ user.restaurantId = restaurantId

getAiProviders ==
  { [id |-> "meshy", enabled |-> meshyKey], [id |-> "manual", enabled |-> TRUE] }

\* the provider configuration with that id, or none (the empty set)
getAiProvider(providerId) == {p \in getAiProviders : p.id = providerId}

allowedStatus == {"enviado", "triagem", "processando", "revisao", "publicado", "erro"}

----------------------------------------------------------------------------
(* Asset resolver *)

\* [threw, value]: the data URI of a stored image, "" for a non-image
\* extension; fs.readFile rejects when the file does not exist
localImageToDataUri(filePath) ==
  LET ext == toLowerCase(filePath.ext)
      mime == extensionToMime(ext) IN
  IF ext \notin IMAGE_EXTENSIONS THEN [threw |-> FALSE, value |-> Empty]
  ELSE IF mime = "" THEN [threw |-> FALSE, value |-> Empty]
  ELSE IF filePath \notin DOMAIN files THEN [threw |-> TRUE, value |-> Empty]
  ELSE [threw |-> FALSE, value |-> Str("data:", mime, files[filePath], "")]

resolveImageCandidate(candidate) ==
  IF candidate = Empty THEN [threw |-> FALSE, value |-> Empty]
  ELSE IF isRemoteHttpUrl(candidate)
    THEN LET ext == toLowerCase(candidate.ext) IN
         IF ext # "" /\ ext \notin IMAGE_EXTENSIONS
           THEN [threw |-> FALSE, value |-> Empty]
           ELSE [threw |-> FALSE, value |-> candidate]
  ELSE LET localPath == urlToUploadFilePath(candidate) IN
       IF localPath = Empty THEN [threw |-> FALSE, value |-> Empty]
       ELSE localImageToDataUri(localPath)

\* the loop of buildJobImageInputs over the candidates still to visit
RECURSIVE gatherInputs(_, _)
gatherInputs(candidates, unique) ==
  IF candidates = <<>> THEN [threw |-> FALSE, inputs |-> unique]
  ELSE LET r == resolveImageCandidate(Head(candidates)) IN
       IF r.threw THEN [threw |-> TRUE, inputs |-> <<>>]
       ELSE IF r.value = Empty \/ r.value \in Range(unique)
         THEN gatherInputs(Tail(candidates), unique)
       ELSE IF Len(unique) + 1 >= MESHY_MAX_REFERENCE_IMAGES
         THEN [threw |-> FALSE, inputs |-> Append(unique, r.value)]
       ELSE gatherInputs(Tail(candidates), Append(unique, r.value))

\* a faulty variant of the ordering below: oldest first within each list
orderedCandidatesOldestFirst(item, job) ==
  SelectSeq(job.referenceImages \o item.scans \o <<item.image>>,
            LAMBDA c : c # Empty)

orderedCandidates(item, job) ==
  SelectSeq(Reverse(job.referenceImages) \o Reverse(item.scans) \o <<item.image>>,
            LAMBDA c : c # Empty)

buildJobImageInputs(item, job) == gatherInputs(orderedCandidates(item, job), <<>>)

----------------------------------------------------------------------------
(* Provider adapter *)

resOk(status) == status >= 200 /\ status <= 299

\* faulty variants of the status mapping: the provider's word stored as it
\* came, and every word that is not a failure taken for a success
rawMeshyStatus(meshyStatus) == meshyStatus

eagerMeshyStatus(meshyStatus) ==
  IF toUpperCase(meshyStatus) \in {"FAILED", "ERROR", "CANCELED", "CANCELLED"}
    THEN "erro" ELSE "revisao"

\* a faulty variant of the status mapping: a task the provider gave up is
\* taken to be still running
mapMeshyStatusHopeful(meshyStatus) ==
  IF toUpperCase(meshyStatus) \in {"SUCCEEDED", "COMPLETED"} THEN "revisao"
  ELSE "processando"

\* a faulty variant of the status mapping: the provider's word compared as
\* it came, without conversion to upper case
mapMeshyStatusExact(meshyStatus) ==
  IF meshyStatus = "SUCCEEDED" \/ meshyStatus = "COMPLETED" THEN "revisao"
  ELSE IF meshyStatus \in {"FAILED", "ERROR", "CANCELED", "CANCELLED"} THEN "erro"
  ELSE "processando"

mapMeshyStatus(meshyStatus) ==
  LET status == toUpperCase(meshyStatus) IN
  IF status = "SUCCEEDED" \/ status = "COMPLETED" THEN "revisao"
  ELSE IF status \in {"FAILED", "ERROR", "CANCELED", "CANCELLED"} THEN "erro"
  ELSE "processando"

\* one request to the provider as the response log sees it: the endpoint, the
\* HTTP status answered, and the word the answer carries (the task id for a
\* start, the task status for a poll; "" on an error response)
Request(endpoint, status, result) ==
  [endpoint |-> endpoint, status |-> status, result |-> result]

\* the payload is kept with the one identifier field it carries
extractMeshyTaskId(payload) == payload.result

buildMeshyStartRequest(imageInputs) ==
  IF Len(imageInputs) > 1 THEN "multi-image-to-3d" ELSE "image-to-3d"

\* a faulty variant of the start call below: an answer without a task id is
\* taken for an accepted task
startMeshyAnyPayload(imageInputs, reply) ==
  IF ~meshyKey THEN [threw |-> TRUE, taskId |-> "", endpoint |-> "", requests |-> <<>>]
  ELSE IF imageInputs = <<>>
    THEN [threw |-> TRUE, taskId |-> "", endpoint |-> "", requests |-> <<>>]
  ELSE LET endpoint == buildMeshyStartRequest(imageInputs) IN
       IF ~resOk(reply.status)
         THEN [threw |-> TRUE, taskId |-> "", endpoint |-> endpoint,
               requests |-> <<Request(endpoint, reply.status, "")>>]
       ELSE [threw |-> FALSE, taskId |-> extractMeshyTaskId(reply.payload),
             endpoint |-> endpoint,
             requests |-> <<Request(endpoint, reply.status,
                                    extractMeshyTaskId(reply.payload))>>]

\* reply = [status, payload]: what the provider answers to the POST
startMeshyImageTo3D(imageInputs, reply) ==
  IF ~meshyKey THEN [threw |-> TRUE, taskId |-> "", endpoint |-> "", requests |-> <<>>]
  ELSE IF imageInputs = <<>>
    THEN [threw |-> TRUE, taskId |-> "", endpoint |-> "", requests |-> <<>>]
  ELSE LET endpoint == buildMeshyStartRequest(imageInputs) IN
       IF ~resOk(reply.status)
         THEN [threw |-> TRUE, taskId |-> "", endpoint |-> endpoint,
               requests |-> <<Request(endpoint, reply.status, "")>>]
       ELSE IF extractMeshyTaskId(reply.payload) = ""
         THEN [threw |-> TRUE, taskId |-> "", endpoint |-> endpoint,
               requests |-> <<Request(endpoint, reply.status, "")>>]
       ELSE [threw |-> FALSE, taskId |-> extractMeshyTaskId(reply.payload),
             endpoint |-> endpoint,
             requests |-> <<Request(endpoint, reply.status,
                                    extractMeshyTaskId(reply.payload))>>]

getMeshyTaskEndpoints(endpointHint) ==
  IF endpointHint = "multi-image-to-3d" THEN <<"multi-image-to-3d", "image-to-3d">>
  ELSE IF endpointHint \in {"image-to-3d", "multi-image-to-3d"}
    THEN <<"image-to-3d", "multi-image-to-3d">>
  ELSE <<"image-to-3d", "multi-image-to-3d">>

\* a faulty variant of the loop below: it goes on to the next endpoint after
\* any error response, not only after a 404
RECURSIVE fetchLoopAnyError(_, _, _)
fetchLoopAnyError(endpoints, respond, tried) ==
  IF endpoints = <<>>
    THEN [threw |-> TRUE, endpoint |-> "", task |-> respond["image-to-3d"].task,
          requests |-> tried]
  ELSE LET endpoint == Head(endpoints)
           res == respond[endpoint] IN
       IF resOk(res.status)
         THEN [threw |-> FALSE, endpoint |-> endpoint, task |-> res.task,
               requests |-> Append(tried, Request(endpoint, res.status, res.task.status))]
       ELSE fetchLoopAnyError(Tail(endpoints), respond,
                              Append(tried, Request(endpoint, res.status, "")))

\* the loop of fetchMeshyTask; respond[endpoint] = [status, task]
RECURSIVE fetchLoop(_, _, _)
fetchLoop(endpoints, respond, tried) ==
  IF endpoints = <<>>
    THEN [threw |-> TRUE, endpoint |-> "", task |-> respond["image-to-3d"].task,
          requests |-> tried]
  ELSE LET endpoint == Head(endpoints)
           res == respond[endpoint] IN
       IF resOk(res.status)
         THEN [threw |-> FALSE, endpoint |-> endpoint, task |-> res.task,
               requests |-> Append(tried, Request(endpoint, res.status, res.task.status))]
       ELSE IF res.status # 404
         THEN [threw |-> TRUE, endpoint |-> "", task |-> res.task,
               requests |-> Append(tried, Request(endpoint, res.status, ""))]
       ELSE fetchLoop(Tail(endpoints), respond,
                      Append(tried, Request(endpoint, res.status, "")))

fetchMeshyTask(endpointHint, respond) ==
  IF ~meshyKey
    THEN [threw |-> TRUE, endpoint |-> "", task |-> respond["image-to-3d"].task,
          requests |-> <<>>]
  ELSE fetchLoop(getMeshyTaskEndpoints(endpointHint), respond, <<>>)

extractMeshyModelUrls(taskData) ==
  [glb |-> IF isRemoteHttpUrl(taskData.model_urls.glb)
             THEN taskData.model_urls.glb ELSE Empty,
   usdz |-> IF isRemoteHttpUrl(taskData.model_urls.usdz)
              THEN taskData.model_urls.usdz ELSE Empty]

----------------------------------------------------------------------------
(* Artifact materializer *)

\* the ids in use anywhere in the store or in the snapshot of a request in
\* flight; randomUUID never returns one of them
UsedIds ==
  {f.id : f \in DOMAIN files}
  \cup UNION {{modelJobs[j].modelGlb.id, modelJobs[j].modelUsdz.id} : j \in DOMAIN modelJobs}
  \cup UNION {{items[i].modelGlb.id, items[i].modelUsdz.id, items[i].image.id} : i \in DOMAIN items}
  \cup UNION {{p.db.modelJobs[j].modelGlb.id : j \in DOMAIN p.db.modelJobs} : p \in inflight}

\* the k-th fresh id (k = 1, 2): the k-th smallest number of the pool not in use
randomUUID(k) ==
  LET free == {n \in 1..MaxUuid : ToString(n) \notin UsedIds}
      first == CHOOSE n \in free : \A m \in free : n <= m
      second == CHOOSE n \in free \ {first} : \A m \in free \ {first} : n <= m IN
  IF k = 1 THEN ToString(first) ELSE ToString(second)

HasFreshIds == Cardinality({n \in 1..MaxUuid : ToString(n) \notin UsedIds}) >= 2

\* one artifact download as the response log sees it
Download(ext, status) == [ext |-> ext, status |-> status]

\* a faulty variant of the download below: the job keeps a link to the
\* provider's copy instead of a stored copy
downloadModelAsLink(urlValue, extension, uuid, httpStatus) ==
  IF ~isRemoteHttpUrl(urlValue) THEN [threw |-> FALSE, value |-> Empty]
  ELSE IF ~resOk(httpStatus) THEN [threw |-> TRUE, value |-> Empty]
  ELSE [threw |-> FALSE, value |-> urlValue]

\* [threw, value]; httpStatus is what the artifact host answers
downloadModelToUploads(urlValue, extension, uuid, httpStatus) ==
  IF ~isRemoteHttpUrl(urlValue) THEN [threw |-> FALSE, value |-> Empty]
  ELSE IF ~resOk(httpStatus) THEN [threw |-> TRUE, value |-> Empty]
  ELSE [threw |-> FALSE, value |-> Str("/uploads/", "models", uuid, extension)]

\* a faulty variant of the test below: every offered artifact is fetched
needsDownloadAlways(offeredUrl, current) == Truthy(offeredUrl)

\* materialization is attempted for a format only when the job's field is empty
needsDownload(offeredUrl, current) == Truthy(offeredUrl) /\ ~Truthy(current)

\* a faulty variant of the test below: the request alone decides
autoPublishOnRequest(job, autoPublish) == autoPublish = "true"

autoPublishApplies(job, autoPublish) == job.autoMode /\ autoPublish = "true"

\* a faulty variant of the cascade below: empty job fields are copied too
publishToItemAlways(item, job) ==
  [item EXCEPT !.modelGlb = job.modelGlb, !.modelUsdz = job.modelUsdz]

\* a faulty variant of the cascade below: a field the item already holds is
\* not replaced
publishToItemIfEmpty(item, job) ==
  [item EXCEPT !.modelGlb = IF Truthy(job.modelGlb) /\ ~Truthy(@) THEN job.modelGlb ELSE @,
               !.modelUsdz = IF Truthy(job.modelUsdz) /\ ~Truthy(@) THEN job.modelUsdz ELSE @]

\* the publish cascade onto the linked item
publishToItem(item, job) ==
  [item EXCEPT !.modelGlb = IF Truthy(job.modelGlb) THEN job.modelGlb ELSE @,
               !.modelUsdz = IF Truthy(job.modelUsdz) THEN job.modelUsdz ELSE @]

----------------------------------------------------------------------------
(* Requests and responses *)

NoOffer == [glb |-> Empty, usdz |-> Empty]

\* a JSON body field that the request does not carry
Absent == "<absent>"

\* the body of a direct edit
EditBody(status, glb, usdz, provider) ==
  [status |-> status, modelGlb |-> glb, modelUsdz |-> usdz, provider |-> provider]

NoEdit == EditBody(Absent, Undefined, Undefined, Absent)

\* the response record: status code and error word, and what the handler did
\* on the way (provider requests, artifact downloads, image inputs submitted);
\* repeated marks a poll that follows a successful poll of the same job and
\* finds the provider status that poll recorded; sameFlag marks a poll that
\* follows a poll of the same job with the same autoPublish; edit is the body of a direct
\* edit that reached the field tests; photos lists the extensions of the files
\* of an image upload; lost holds the fields of the job that another request
\* had written between this request's read of the store and its write, with
\* the values this request's write replaced
Reply(op, id, code, error) ==
  [op |-> op, id |-> id, code |-> code, error |-> error,
   requests |-> <<>>, downloads |-> <<>>, offered |-> NoOffer,
   autoPublish |-> "", images |-> <<>>, imagesSent |-> 0, repeated |-> FALSE,
   sameFlag |-> FALSE, edit |-> NoEdit, photos |-> <<>>, lost |-> <<>>]

\* a handler that returns before writeDb: the snapshot read by requireAuth is dropped
Refuse(op, id, code, error) ==
  /\ lastOp' = Reply(op, id, code, error)
  /\ UNCHANGED <<inflight, meshyKey, items, modelJobs, files>>

ItemIdPool == {"i-1"}
JobIdPool == {"mj-1"}

NewItem(restaurantId) ==
  [restaurantId |-> restaurantId, image |-> Empty, modelGlb |-> Empty,
   modelUsdz |-> Empty, scans |-> <<>>]

\* what the requests of the model carry
RemoteImage == Str("https://", "cdn.example", "dish", ".jpg")
MissingUpload == Str("/uploads/", "images", "gone", ".jpg")
ItemImageInputs == {Undefined, Empty, RemoteImage, MissingUpload}
ItemGlbInputs == {Undefined, Str("/uploads/", "models", "item", ".glb")}
JobGlbInputs == {Undefined, Empty, Str("/uploads/", "models", "manual", ".glb")}
StatusInputs == {Absent, "enviado", "triagem", "revisao", "PUBLICADO", "arquivado"}
ProviderInputs == {Absent, "MESHY", "manual", "luma"}
SourceInputs == {"upload", "video"}
AutoPublishInputs == {Absent, "true", "'true'"}
TaskIdInputs == {"", "task-A"}
RawStatuses == {"SUCCEEDED", "FAILED", "IN_PROGRESS", "PENDING"}
HttpStatuses == {200, 404, 500}
GlbOffers == {Empty, Str("https://", "assets.meshy.ai", "out", ".glb"),
              Str("ftp://", "assets.meshy.ai", "out", ".glb")}
UsdzOffers == {Empty, Str("https://", "assets.meshy.ai", "out", ".usdz")}

----------------------------------------------------------------------------
(* Items *)

CreateItem(caller, restaurantId) ==
  /\ \E id \in ItemIdPool : id \notin DOMAIN items
  /\ IF ~canAccessRestaurant(caller, restaurantId)
       THEN Refuse("createItem", "", 403, "forbidden")
       ELSE LET id == CHOOSE i \in ItemIdPool : i \notin DOMAIN items IN
            /\ items' = [i \in DOMAIN items \cup {id} |->
                           IF i = id THEN NewItem(restaurantId) ELSE items[i]]
            /\ lastOp' = Reply("createItem", id, 200, "")
            /\ UNCHANGED <<inflight, meshyKey, modelJobs, files>>

UpdateItem(caller, itemId, body) ==
  IF itemId \notin DOMAIN items THEN Refuse("updateItem", itemId, 404, "item_not_found")
  ELSE IF ~canAccessRestaurant(caller, items[itemId].restaurantId)
    THEN Refuse("updateItem", itemId, 403, "forbidden")
  ELSE /\ items' = [items EXCEPT ![itemId] =
                      [@ EXCEPT !.image = IF body.image # Undefined THEN body.image ELSE @,
                                !.modelGlb = IF body.modelGlb # Undefined THEN body.modelGlb ELSE @,
                                !.modelUsdz = IF body.modelUsdz # Undefined THEN body.modelUsdz ELSE @]]
       /\ lastOp' = Reply("updateItem", itemId, 200, "")
       /\ UNCHANGED <<inflight, meshyKey, modelJobs, files>>

UploadScan(caller, itemId, photo) ==
  /\ HasFreshIds
  /\ IF itemId \notin DOMAIN items THEN Refuse("uploadScan", itemId, 404, "item_not_found")
     ELSE IF ~canAccessRestaurant(caller, items[itemId].restaurantId)
       THEN Refuse("uploadScan", itemId, 403, "forbidden")
     ELSE IF fileExt(photo) \notin IMAGE_EXTENSIONS
       THEN Refuse("uploadScan", itemId, 400, "photo_invalid_type")
     ELSE /\ Len(items[itemId].scans) < MaxScans
          /\ LET url == Str("/uploads/", "scans/" \o itemId, randomUUID(1), photo.ext) IN
             /\ files' = [f \in DOMAIN files \cup {url} |->
                            IF f = url THEN photo.content ELSE files[f]]
             /\ items' = [items EXCEPT ![itemId].scans = Append(@, url)]
          /\ lastOp' = Reply("uploadScan", itemId, 200, "")
          /\ UNCHANGED <<inflight, meshyKey, modelJobs>>

\* the files left after removeDirIfExists on each directory of dirs
removeDirs(dirs) == [f \in {g \in DOMAIN files : g.dir \notin dirs} |-> files[f]]

DeleteItem(caller, itemId) ==
  IF itemId \notin DOMAIN items THEN Refuse("deleteItem", itemId, 404, "item_not_found")
  ELSE IF ~canAccessRestaurant(caller, items[itemId].restaurantId)
    THEN Refuse("deleteItem", itemId, 403, "forbidden")
  ELSE LET removedJobs == {j \in DOMAIN modelJobs : modelJobs[j].itemId = itemId} IN
       /\ items' = [i \in DOMAIN items \ {itemId} |-> items[i]]
       /\ modelJobs' = [j \in DOMAIN modelJobs \ removedJobs |-> modelJobs[j]]
       /\ files' = removeDirs({"scans/" \o itemId} \cup {"job-images/" \o j : j \in removedJobs})
       /\ lastOp' = Reply("deleteItem", itemId, 200, "")
       /\ UNCHANGED <<inflight, meshyKey>>

----------------------------------------------------------------------------
(* Model jobs: create, upload reference images, direct edit, delete *)

NewJob(restaurantId, itemId, source, providerId, autoMode) ==
  [restaurantId |-> restaurantId, itemId |-> itemId, sourceType |-> source,
   provider |-> providerId, autoMode |-> autoMode, status |-> "enviado",
   modelGlb |-> Empty, modelUsdz |-> Empty, referenceImages |-> <<>>,
   providerTaskId |-> "", providerTaskEndpoint |-> "", providerStatus |-> ""]

CreateJob(caller, restaurantId, body) ==
  /\ \E id \in JobIdPool : id \notin DOMAIN modelJobs
  /\ LET providerId == toLowerCase(IF body.provider = Absent THEN "manual" ELSE body.provider) IN
     IF ~canAccessRestaurant(caller, restaurantId)
       THEN Refuse("createJob", "", 403, "forbidden")
     ELSE IF body.itemId = "" THEN Refuse("createJob", "", 400, "item_required")
     ELSE IF body.itemId \notin DOMAIN items
             \/ items[body.itemId].restaurantId # restaurantId
       THEN Refuse("createJob", "", 400, "item_invalid")
     ELSE IF body.sourceType \notin {"scanner", "upload", "api"}
       THEN Refuse("createJob", "", 400, "source_invalid")
     ELSE IF getAiProvider(providerId) = {}
       THEN Refuse("createJob", "", 400, "provider_invalid")
     ELSE LET id == CHOOSE j \in JobIdPool : j \notin DOMAIN modelJobs IN
          /\ modelJobs' = [j \in DOMAIN modelJobs \cup {id} |->
                             IF j = id
                               THEN NewJob(restaurantId, body.itemId, body.sourceType,
                                           providerId, body.autoMode)
                               ELSE modelJobs[j]]
          /\ lastOp' = Reply("createJob", id, 200, "")
          /\ UNCHANGED <<inflight, meshyKey, items, files>>

\* the stored names multer gives the files of one request
storedPhotos(jobId, photos) ==
  [k \in 1..Len(photos) |->
     Str("/uploads/", "job-images/" \o jobId, randomUUID(k), toLowerCase(photos[k].ext))]

isImageFile(file) == fileExt(file) \in IMAGE_EXTENSIONS

\* a faulty variant of the operator below: a file that is not an image is
\* skipped and the others are handed to the handler
acceptedPhotosSkipping(photos) ==
  [threw |-> FALSE, files |-> SelectSeq(photos, isImageFile)]

\* the upload middleware runs before the handler: it stores every file of the
\* request, or rejects the request (removing what it stored) when a file is
\* not an image
acceptedPhotos(photos) ==
  IF \E k \in 1..Len(photos) : ~isImageFile(photos[k])
    THEN [threw |-> TRUE, files |-> <<>>]
    ELSE [threw |-> FALSE, files |-> photos]

\* the answer to an upload call, with the extensions of the files it carried
UploadReply(jobId, code, error, photos) ==
  [Reply("uploadImages", jobId, code, error) EXCEPT
     !.photos = [k \in 1..Len(photos) |-> photos[k].ext]]

UploadJobImages(caller, jobId, photos) ==
  /\ HasFreshIds
  /\ \E up \in {acceptedPhotos(photos)} :
     /\ Cardinality({f \in DOMAIN files : f.dir = "job-images/" \o jobId})
          + Len(up.files) <= MaxRefs
     /\ IF up.threw
          THEN /\ lastOp' = UploadReply(jobId, 400, "photos_invalid_type", photos)
               /\ UNCHANGED <<inflight, meshyKey, items, modelJobs, files>>
        ELSE LET urls == storedPhotos(jobId, up.files)
                 stored == [f \in DOMAIN files \cup Range(urls) |->
                              IF f \in DOMAIN files THEN files[f]
                              ELSE up.files[CHOOSE k \in 1..Len(urls) : urls[k] = f].content] IN
             IF jobId \notin DOMAIN modelJobs
               THEN /\ files' = stored
                    /\ lastOp' = UploadReply(jobId, 404, "job_not_found", photos)
                    /\ UNCHANGED <<inflight, meshyKey, items, modelJobs>>
             ELSE IF ~canAccessRestaurant(caller, modelJobs[jobId].restaurantId)
               THEN /\ files' = stored
                    /\ lastOp' = UploadReply(jobId, 403, "forbidden", photos)
                    /\ UNCHANGED <<inflight, meshyKey, items, modelJobs>>
             ELSE IF up.files = <<>>
               THEN /\ lastOp' = UploadReply(jobId, 400, "photos_required", photos)
                    /\ UNCHANGED <<inflight, meshyKey, items, modelJobs, files>>
             ELSE /\ files' = stored
                  /\ modelJobs' = [modelJobs EXCEPT ![jobId].referenceImages = @ \o urls]
                  /\ lastOp' = UploadReply(jobId, 200, "", photos)
                  /\ UNCHANGED <<inflight, meshyKey, items>>

\* the field tests and assignments of a direct edit: the word of the 400
\* error ("" when every test passed) and the job of the request's snapshot as
\* the handler left it, with the assignments made before a failed test
editedJob(job, body) ==
  LET status == toLowerCase(body.status)
      providerId == toLowerCase(body.provider)
      assigned == [job EXCEPT
                     !.status = IF body.status # Absent THEN status ELSE @,
                     !.modelGlb = IF body.modelGlb # Undefined THEN body.modelGlb ELSE @,
                     !.modelUsdz = IF body.modelUsdz # Undefined THEN body.modelUsdz ELSE @] IN
  IF body.status # Absent /\ status \notin allowedStatus
    THEN [error |-> "status_invalid", job |-> job]
  ELSE IF body.provider # Absent /\ getAiProvider(providerId) = {}
    THEN [error |-> "provider_invalid", job |-> assigned]
  ELSE [error |-> "",
        job |-> [assigned EXCEPT
                   !.provider = IF body.provider # Absent THEN providerId ELSE @]]

\* a faulty variant of the operator below: the snapshot is written on the
\* error path as well
editWrittenAlways(job, e) == e.job

\* the job a direct edit leaves in the store: the handler returns before
\* writeDb when a test failed, and the snapshot it assigned to is dropped
editWritten(job, e) == IF e.error = "" THEN e.job ELSE job

\* db.items after the cascade that follows a write of a published job
cascade(job) ==
  IF job.status = "publicado" /\ job.itemId \in DOMAIN items
    THEN [items EXCEPT ![job.itemId] = publishToItem(@, job)]
    ELSE items

UpdateJob(caller, jobId, body) ==
  IF jobId \notin DOMAIN modelJobs THEN Refuse("updateJob", jobId, 404, "job_not_found")
  ELSE IF ~canAccessRestaurant(caller, modelJobs[jobId].restaurantId)
    THEN Refuse("updateJob", jobId, 403, "forbidden")
  ELSE \E e \in {editedJob(modelJobs[jobId], body)} :
       /\ modelJobs' = [modelJobs EXCEPT ![jobId] = editWritten(@, e)]
       /\ items' = IF e.error = "" THEN cascade(e.job) ELSE items
       /\ lastOp' = [Reply("updateJob", jobId, IF e.error = "" THEN 200 ELSE 400, e.error)
                       EXCEPT !.edit = body]
       /\ UNCHANGED <<inflight, meshyKey, files>>

DeleteJob(caller, jobId) ==
  IF jobId \notin DOMAIN modelJobs THEN Refuse("deleteJob", jobId, 404, "job_not_found")
  ELSE IF ~canAccessRestaurant(caller, modelJobs[jobId].restaurantId)
    THEN Refuse("deleteJob", jobId, 403, "forbidden")
  ELSE /\ modelJobs' = [j \in DOMAIN modelJobs \ {jobId} |-> modelJobs[j]]
       /\ files' = removeDirs({"job-images/" \o jobId})
       /\ lastOp' = Reply("deleteJob", jobId, 200, "")
       /\ UNCHANGED <<inflight, meshyKey, items>>

----------------------------------------------------------------------------
(* start: submit the job's images to the provider *)

\* a faulty variant of the catch block of start: the provider status is
\* marked and the job status is left as it was
startFailedMarkOnly(job) == [job EXCEPT !.providerStatus = "ERROR_ON_START"]

\* a faulty variant of the catch block of start: the handle of the earlier
\* task is dropped
startFailedForgetTask(job) ==
  [job EXCEPT !.providerStatus = "ERROR_ON_START", !.status = "erro",
              !.providerTaskId = ""]

\* the job written by the catch block of start
startFailed(job) == [job EXCEPT !.providerStatus = "ERROR_ON_START", !.status = "erro"]

\* a faulty variant of the assignments below: the artifacts of the earlier
\* run are cleared when a new task is accepted
startSucceededFresh(job, providerId, startResult) ==
  [job EXCEPT !.provider = providerId,
              !.providerTaskId = startResult.taskId,
              !.providerTaskEndpoint = startResult.endpoint,
              !.providerStatus = "SUBMITTED",
              !.status = "processando",
              !.modelGlb = Empty,
              !.modelUsdz = Empty]

\* the job written after the provider accepted the task
startSucceeded(job, providerId, startResult) ==
  [job EXCEPT !.provider = providerId,
              !.providerTaskId = startResult.taskId,
              !.providerTaskEndpoint = startResult.endpoint,
              !.providerStatus = "SUBMITTED",
              !.status = "processando"]

\* a faulty variant of the try block below: the images are handed to the
\* adapter without the test for an empty list
startJobUnchecked(item, job, providerId, reply) ==
  LET built == buildJobImageInputs(item, job)
      startResult == startMeshyImageTo3D(built.inputs, reply) IN
  IF built.threw \/ startResult.threw
    THEN [code |-> 502, error |-> "ai_start_failed", job |-> startFailed(job),
          written |-> TRUE, requests |-> startResult.requests,
          images |-> built.inputs, imagesSent |-> 0]
    ELSE [code |-> 200, error |-> "",
          job |-> startSucceeded(job, providerId, startResult),
          written |-> TRUE, requests |-> startResult.requests,
          images |-> built.inputs, imagesSent |-> Len(built.inputs)]

\* the try block of start:
\* [code, error, job, written, requests, images, imagesSent]
startJob(item, job, providerId, reply) ==
  LET built == buildJobImageInputs(item, job) IN
  IF built.threw
    THEN [code |-> 502, error |-> "ai_start_failed", job |-> startFailed(job),
          written |-> TRUE, requests |-> <<>>, images |-> <<>>, imagesSent |-> 0]
  ELSE IF built.inputs = <<>>
    THEN [code |-> 400, error |-> "image_source_not_found", job |-> job,
          written |-> FALSE, requests |-> <<>>, images |-> <<>>, imagesSent |-> 0]
  ELSE LET startResult == startMeshyImageTo3D(built.inputs, reply) IN
       IF startResult.threw
         THEN [code |-> 502, error |-> "ai_start_failed", job |-> startFailed(job),
               written |-> TRUE, requests |-> startResult.requests,
               images |-> built.inputs, imagesSent |-> 0]
         ELSE [code |-> 200, error |-> "",
               job |-> startSucceeded(job, providerId, startResult),
               written |-> TRUE, requests |-> startResult.requests,
               images |-> built.inputs, imagesSent |-> Len(built.inputs)]

StartAi(caller, jobId, body, reply) ==
  IF jobId \notin DOMAIN modelJobs THEN Refuse("start", jobId, 404, "job_not_found")
  ELSE LET job == modelJobs[jobId]
           providerId == toLowerCase(IF body.provider # Absent THEN body.provider
                                     ELSE IF job.provider # "" THEN job.provider
                                     ELSE "manual")
           provider == getAiProvider(providerId) IN
       IF ~canAccessRestaurant(caller, job.restaurantId)
         THEN Refuse("start", jobId, 403, "forbidden")
       ELSE IF job.itemId \notin DOMAIN items
         THEN Refuse("start", jobId, 400, "item_not_found")
       ELSE IF provider = {} THEN Refuse("start", jobId, 400, "provider_invalid")
       ELSE IF \E p \in provider : ~p.enabled
         THEN Refuse("start", jobId, 400, "provider_not_configured")
       ELSE IF providerId # "meshy"
         THEN Refuse("start", jobId, 400, "provider_not_implemented")
       ELSE \E r \in {startJob(items[job.itemId], job, providerId, reply)} :
            /\ modelJobs' = IF r.written THEN [modelJobs EXCEPT ![jobId] = r.job]
                            ELSE modelJobs
            /\ lastOp' = [Reply("start", jobId, r.code, r.error) EXCEPT
                            !.requests = r.requests, !.images = r.images,
                            !.imagesSent = r.imagesSent]
            /\ UNCHANGED <<inflight, meshyKey, items, files>>

----------------------------------------------------------------------------
(* sync: poll the provider task, materialize the artifacts, maybe publish *)

\* a faulty variant of the catch block of sync: the job is put back in the
\* queue of submitted jobs
syncFailedRequeue(job) == [job EXCEPT !.status = "enviado"]

\* the job written by the catch block of sync: the assignments made before
\* the throw stay in the snapshot that is written
syncFailed(job) == [job EXCEPT !.status = "erro"]

\* the revisao branch: downloads for the empty fields, then auto-publish.
\* dl = [glb, usdz]: the HTTP status the artifact host answers to each download
materialize(job, urls, autoPublish, dl) ==
  LET wantGlb == needsDownload(urls.glb, job.modelGlb)
      glb == downloadModelToUploads(urls.glb, ".glb", randomUUID(1), dl.glb)
      job1 == IF wantGlb /\ ~glb.threw THEN [job EXCEPT !.modelGlb = glb.value] ELSE job
      wantUsdz == needsDownload(urls.usdz, job1.modelUsdz)
      usdz == downloadModelToUploads(urls.usdz, ".usdz",
                                     randomUUID(IF wantGlb THEN 2 ELSE 1), dl.usdz)
      job2 == IF wantUsdz /\ ~usdz.threw THEN [job1 EXCEPT !.modelUsdz = usdz.value] ELSE job1 IN
  IF wantGlb /\ glb.threw
    THEN [threw |-> TRUE, job |-> job, downloads |-> <<Download(".glb", dl.glb)>>]
  ELSE IF wantUsdz /\ usdz.threw
    THEN [threw |-> TRUE, job |-> job1,
          downloads |-> (IF wantGlb THEN <<Download(".glb", dl.glb)>> ELSE <<>>)
                        \o <<Download(".usdz", dl.usdz)>>]
  ELSE [threw |-> FALSE,
        job |-> IF autoPublishApplies(job2, autoPublish)
                  THEN [job2 EXCEPT !.status = "publicado"] ELSE job2,
        downloads |-> (IF wantGlb THEN <<Download(".glb", dl.glb)>> ELSE <<>>)
                      \o (IF wantUsdz THEN <<Download(".usdz", dl.usdz)>> ELSE <<>>)]

\* a faulty variant of the try/catch below: a published job stays published
\* whatever the provider reports
syncJobSticky(job, autoPublish, respond, dl) ==
  LET providerSync == fetchMeshyTask(job.providerTaskEndpoint, respond) IN
  IF providerSync.threw
    THEN [code |-> 502, error |-> "ai_sync_failed", job |-> syncFailed(job),
          requests |-> providerSync.requests, downloads |-> <<>>,
          providerStatus |-> "", offered |-> NoOffer]
  ELSE LET taskData == providerSync.task
           taskStatus == taskData.status
           job1 == [job EXCEPT !.providerTaskEndpoint = providerSync.endpoint,
                               !.providerStatus = taskStatus,
                               !.status = IF job.status = "publicado" THEN "publicado"
                                          ELSE mapMeshyStatus(taskStatus)] IN
       IF job1.status # "revisao"
         THEN [code |-> 200, error |-> "", job |-> job1,
               requests |-> providerSync.requests, downloads |-> <<>>,
               providerStatus |-> taskStatus, offered |-> NoOffer]
       ELSE LET urls == extractMeshyModelUrls(taskData)
                m == materialize(job1, urls, autoPublish, dl) IN
            IF m.threw
              THEN [code |-> 502, error |-> "ai_sync_failed", job |-> syncFailed(m.job),
                    requests |-> providerSync.requests, downloads |-> m.downloads,
                    providerStatus |-> taskStatus, offered |-> urls]
              ELSE [code |-> 200, error |-> "", job |-> m.job,
                    requests |-> providerSync.requests, downloads |-> m.downloads,
                    providerStatus |-> taskStatus, offered |-> urls]

\* the try/catch of sync: [code, error, job, requests, downloads, providerStatus, offered]
syncJob(job, autoPublish, respond, dl) ==
  LET providerSync == fetchMeshyTask(job.providerTaskEndpoint, respond) IN
  IF providerSync.threw
    THEN [code |-> 502, error |-> "ai_sync_failed", job |-> syncFailed(job),
          requests |-> providerSync.requests, downloads |-> <<>>,
          providerStatus |-> "", offered |-> NoOffer]
  ELSE LET taskData == providerSync.task
           taskStatus == taskData.status
           job1 == [job EXCEPT !.providerTaskEndpoint = providerSync.endpoint,
                               !.providerStatus = taskStatus,
                               !.status = mapMeshyStatus(taskStatus)] IN
       IF job1.status # "revisao"
         THEN [code |-> 200, error |-> "", job |-> job1,
               requests |-> providerSync.requests, downloads |-> <<>>,
               providerStatus |-> taskStatus, offered |-> NoOffer]
       ELSE LET urls == extractMeshyModelUrls(taskData)
                m == materialize(job1, urls, autoPublish, dl) IN
            IF m.threw
              THEN [code |-> 502, error |-> "ai_sync_failed", job |-> syncFailed(m.job),
                    requests |-> providerSync.requests, downloads |-> m.downloads,
                    providerStatus |-> taskStatus, offered |-> urls]
              ELSE [code |-> 200, error |-> "", job |-> m.job,
                    requests |-> providerSync.requests, downloads |-> m.downloads,
                    providerStatus |-> taskStatus, offered |-> urls]

\* a faulty variant of the tests below: a job without a task handle is let through
syncRefusalProviderOnly(job) ==
  IF job.provider # "meshy" THEN "provider_not_implemented" ELSE ""

\* the tests of sync that precede the try block: the word of the 400 error,
\* or "" when the job has the implemented provider and a task handle
syncRefusal(job) ==
  IF job.provider # "meshy" THEN "provider_not_implemented"
  ELSE IF job.providerTaskId = "" THEN "provider_task_missing"
  ELSE ""

SyncAi(caller, jobId, autoPublish, respond, dl) ==
  IF jobId \notin DOMAIN modelJobs THEN Refuse("sync", jobId, 404, "job_not_found")
  ELSE LET job == modelJobs[jobId] IN
       IF ~canAccessRestaurant(caller, job.restaurantId)
         THEN Refuse("sync", jobId, 403, "forbidden")
       ELSE IF syncRefusal(job) # ""
         THEN Refuse("sync", jobId, 400, syncRefusal(job))
       ELSE /\ HasFreshIds
            /\ \E r \in {syncJob(job, autoPublish, respond, dl)} :
               /\ modelJobs' = [modelJobs EXCEPT ![jobId] = r.job]
               /\ items' = IF r.code = 200 THEN cascade(r.job) ELSE items
               /\ lastOp' = [Reply("sync", jobId, r.code, r.error) EXCEPT
                               !.requests = r.requests, !.downloads = r.downloads,
                               !.offered = r.offered, !.autoPublish = autoPublish,
                               !.repeated = /\ lastOp.op = "sync"
                                            /\ lastOp.code = 200
                                            /\ lastOp.id = jobId
                                            /\ r.code = 200
                                            /\ r.providerStatus = job.providerStatus,
                               !.sameFlag = /\ lastOp.op = "sync"
                                            /\ lastOp.id = jobId
                                            /\ lastOp.autoPublish = autoPublish]
               /\ UNCHANGED <<inflight, meshyKey, files>>

----------------------------------------------------------------------------
(* What the environment supplies to a request *)

Endpoints == {"image-to-3d", "multi-image-to-3d"}

Task(status, glb, usdz) == [status |-> status, model_urls |-> [glb |-> glb, usdz |-> usdz]]

NoTask == Task("", Empty, Empty)

\* one poll as the provider and the artifact host answer it: the HTTP status of
\* each endpoint, the task returned by an endpoint that answers 200, the HTTP
\* status of each download
Poll(first, second, task, dl) ==
  [respond |-> [e \in Endpoints |->
                  [status |-> IF e = "image-to-3d" THEN first ELSE second,
                   task |-> task]],
   dl |-> dl]

DownloadsOk == [glb |-> 200, usdz |-> 200]

\* the artifact host answers each download it receives
DownloadReplies(task) ==
  {[glb |-> a, usdz |-> b] :
     a \in IF isRemoteHttpUrl(task.model_urls.glb) THEN {200, 500} ELSE {200},
     b \in IF isRemoteHttpUrl(task.model_urls.usdz) THEN {200, 500} ELSE {200}}

\* polls in which no endpoint answers 200
FailedPolls ==
  {Poll(first, second, NoTask, DownloadsOk) :
     first \in HttpStatuses \ {200}, second \in HttpStatuses \ {200}}

\* polls in which an endpoint answers 200 with one of the tasks
AnsweredPolls(statusPairs, tasks) ==
  UNION {{Poll(hs[1], hs[2], task, dl) : dl \in DownloadReplies(task)} :
           hs \in statusPairs, task \in tasks}

StartReplies ==
  {[status |-> 500, payload |-> [result |-> ""]]}
  \cup {[status |-> 200, payload |-> [result |-> t]] : t \in TaskIdInputs}

\* an uploaded file: the extension of its original name and its content
Photo(ext, content) == [ext |-> ext, content |-> content]

ItemWithPhoto == [i \in {"i-1"} |-> [NewItem("r1") EXCEPT !.image = RemoteImage]]
NoJobs == [j \in {} |-> NewJob("", "", "", "", FALSE)]
NoFiles == [f \in {} |-> ""]

----------------------------------------------------------------------------
(* Spec: the life of a job, from creation through start and polling, with  *)
(* reference image uploads and direct edits of status and provider.  The   *)
(* item has a listing photo; finished tasks carry no result URLs.          *)

\* a pending task already lists the URL of a preview GLB
LifeTasks ==
  {Task(st, Empty, Empty) : st \in RawStatuses \ {"PENDING"}}
  \cup {Task("PENDING", Str("https://", "assets.meshy.ai", "preview", ".glb"), Empty)}

LifePolls ==
  FailedPolls
  \cup AnsweredPolls({h \in HttpStatuses \X HttpStatuses : h[1] = 200 \/ h[2] = 200},
                     LifeTasks)

LifeEdits ==
  {EditBody(st, Undefined, Undefined, Absent) : st \in StatusInputs}
  \cup {EditBody(Absent, Undefined, Undefined, p) : p \in ProviderInputs}

Init ==
  /\ inflight = {}
  /\ meshyKey \in BOOLEAN
  /\ items = ItemWithPhoto
  /\ modelJobs = NoJobs
  /\ files = NoFiles
  /\ lastOp = Reply("init", "", 0, "")

LifeCreateJob ==
  \E caller \in Users, r \in Restaurants, itemId \in ItemIdPool \cup {""},
     source \in SourceInputs, provider \in ProviderInputs, autoMode \in BOOLEAN :
    CreateJob(caller, r, [itemId |-> itemId, sourceType |-> source,
                          provider |-> provider, autoMode |-> autoMode])

LifeUpdateJob ==
  \E caller \in Clients, jobId \in JobIdPool, body \in LifeEdits :
    UpdateJob(caller, jobId, body)

LifeUploadJobImages ==
  \E caller \in Users, jobId \in JobIdPool, photos \in {<<>>, <<Photo(".JPG", "A")>>} :
    UploadJobImages(caller, jobId, photos)

LifeDeleteJob == \E caller \in Users, jobId \in JobIdPool : DeleteJob(caller, jobId)

LifeStartAi ==
  \E caller \in Clients, jobId \in JobIdPool, provider \in ProviderInputs,
     reply \in StartReplies :
    StartAi(caller, jobId, [provider |-> provider], reply)

LifeSyncAi ==
  \E caller \in Clients, jobId \in JobIdPool, autoPublish \in {Absent, "true"},
     poll \in LifePolls :
    SyncAi(caller, jobId, autoPublish, poll.respond, poll.dl)

Next ==
  \/ LifeCreateJob
  \/ LifeUpdateJob
  \/ LifeUploadJobImages
  \/ LifeDeleteJob
  \/ LifeStartAi
  \/ LifeSyncAi

Spec == Init /\ [][Next]_vars

----------------------------------------------------------------------------
(* Properties of Spec *)

\* the provider statuses of the model that are neither success nor failure
NonTerminal == {"IN_PROGRESS", "PENDING"}

\* C1: every stored job's status is one of enviado, triagem, processando,
\* revisao, publicado, erro, whatever sequence of create, upload, edit, start
\* and sync produced it; no raw provider status word is ever stored in status.
C1_StatusInEnum ==
  \A j \in DOMAIN modelJobs :
    modelJobs[j].status \in {"enviado", "triagem", "processando", "revisao",
                             "publicado", "erro"}

\* a poll has just stored the mapping of a raw provider status
C1_Witness ==
  /\ lastOp.op = "sync" /\ lastOp.code = 200
  /\ lastOp.id \in DOMAIN modelJobs
  /\ modelJobs[lastOp.id].providerStatus = "IN_PROGRESS"
  /\ modelJobs[lastOp.id].status = "processando"

\* C2: when a sync follows a successful sync of the same job and the provider
\* reports the same non-terminal status again, the job's status, modelGlb and
\* modelUsdz after the second call equal their values after the first.
C2_ResyncIdempotent ==
  [][ \A j \in DOMAIN modelJobs \cap DOMAIN modelJobs' :
        ( /\ lastOp.op = "sync" /\ lastOp.code = 200 /\ lastOp.id = j
          /\ lastOp'.op = "sync" /\ lastOp'.code = 200 /\ lastOp'.id = j
          /\ modelJobs[j].providerStatus \in NonTerminal
          /\ modelJobs'[j].providerStatus = modelJobs[j].providerStatus )
        => /\ modelJobs'[j].status = modelJobs[j].status
           /\ modelJobs'[j].modelGlb = modelJobs[j].modelGlb
           /\ modelJobs'[j].modelUsdz = modelJobs[j].modelUsdz ]_vars

\* the second of two successful polls that found the same non-terminal status
C2_Witness ==
  /\ lastOp.op = "sync" /\ lastOp.code = 200 /\ lastOp.repeated
  /\ lastOp.id \in DOMAIN modelJobs
  /\ modelJobs[lastOp.id].providerStatus \in NonTerminal
  /\ modelJobs[lastOp.id].status = "processando"

\* C6: a fetch asks the hinted endpoint first; after a 404 it asks the other
\* endpoint exactly once and the sync fails if that fails too; after any other
\* error answer it asks nothing more and the sync fails.  No fetch makes more
\* than two requests.
C6_EndpointFallback ==
  [][ (lastOp'.op = "sync" /\ lastOp'.requests # <<>> /\ lastOp'.id \in DOMAIN modelJobs)
      => LET hint == modelJobs[lastOp'.id].providerTaskEndpoint
             reqs == lastOp'.requests
             failed(r) == r.status < 200 \/ r.status > 299 IN
         /\ Len(reqs) <= 2
         /\ hint \in Endpoints => reqs[1].endpoint = hint
         /\ (failed(reqs[1]) /\ reqs[1].status = 404)
              => /\ Len(reqs) = 2
                 /\ reqs[2].endpoint \in Endpoints \ {reqs[1].endpoint}
                 /\ failed(reqs[2]) => lastOp'.error = "ai_sync_failed"
         /\ (failed(reqs[1]) /\ reqs[1].status # 404)
              => /\ Len(reqs) = 1
                 /\ lastOp'.error = "ai_sync_failed"
         /\ ~failed(reqs[1]) => Len(reqs) = 1 ]_vars

\* a fetch that fell back: the first endpoint answered 404 and the second failed
C6_Witness ==
  /\ lastOp.op = "sync" /\ lastOp.code = 502
  /\ Len(lastOp.requests) = 2
  /\ lastOp.requests[1].status = 404
  /\ lastOp.requests[1].endpoint = "multi-image-to-3d"
  /\ lastOp.requests[2].status = 500

\* C10: when the provider answers the start request with a non-success HTTP
\* status, or with no task id, the job is stored with status erro and
\* providerStatus ERROR_ON_START and the response is 502 ai_start_failed.
C10_StartFailure ==
  ( /\ lastOp.op = "start" /\ lastOp.requests # <<>>
    /\ \/ lastOp.requests[1].status < 200
       \/ lastOp.requests[1].status > 299
       \/ lastOp.requests[1].result = "" )
  => /\ lastOp.code = 502 /\ lastOp.error = "ai_start_failed"
     /\ lastOp.id \in DOMAIN modelJobs
     /\ modelJobs[lastOp.id].status = "erro"
     /\ modelJobs[lastOp.id].providerStatus = "ERROR_ON_START"

\* the provider answered 200 without a task id to the start of a job
C10_Witness ==
  /\ lastOp.op = "start" /\ lastOp.code = 502
  /\ Len(lastOp.requests) = 1
  /\ lastOp.requests[1].status = 200 /\ lastOp.requests[1].result = ""
  /\ modelJobs[lastOp.id].status = "erro"

\* C14: a sync, by a caller who may access the job, of a job whose provider is
\* not meshy or whose providerTaskId is empty is answered 400
\* (provider_task_missing when the job is a meshy job without a task handle),
\* sends no provider request, downloads nothing and leaves items, jobs and
\* stored files as they were.
C14_SyncRefused ==
  [][ \A j \in DOMAIN modelJobs :
        ( /\ lastOp'.op = "sync" /\ lastOp'.id = j /\ lastOp'.code # 403
          /\ (modelJobs[j].provider # "meshy" \/ modelJobs[j].providerTaskId = "") )
        => /\ lastOp'.code = 400
           /\ lastOp'.error = IF modelJobs[j].provider # "meshy"
                                THEN "provider_not_implemented"
                                ELSE "provider_task_missing"
           /\ lastOp'.requests = <<>>
           /\ lastOp'.downloads = <<>>
           /\ UNCHANGED <<items, modelJobs, files>> ]_vars

\* a sync of a meshy job that was never started was refused for the missing handle
C14_Witness ==
  /\ lastOp.op = "sync" /\ lastOp.code = 400
  /\ lastOp.error = "provider_task_missing"
  /\ modelJobs[lastOp.id].provider = "meshy"
  /\ modelJobs[lastOp.id].providerTaskId = ""

\* the operations on an existing job
JobOperations == {"start", "sync", "updateJob", "deleteJob", "uploadImages"}

\* C15: a job operation (start, sync, direct edit, delete, image upload)
\* answered 403 forbidden mutates nothing: items, jobs and stored files are
\* as they were before the request.
C15_AsStated ==
  [][ (lastOp'.op \in JobOperations /\ lastOp'.code = 403)
        => UNCHANGED <<items, modelJobs, files>> ]_vars

\* C25: providerTaskId of a stored job changes only in a start answered 200,
\* which stores the task id the provider returned; sync, direct edit, image
\* upload and a failed start leave it as it was, and a sync of a job whose
\* restart failed is not refused for want of a task.
C25_TaskHandleFrame ==
  [][ \A j \in DOMAIN modelJobs \cap DOMAIN modelJobs' :
        /\ modelJobs'[j].providerTaskId # modelJobs[j].providerTaskId
             => /\ lastOp'.op = "start" /\ lastOp'.id = j /\ lastOp'.code = 200
                /\ modelJobs'[j].providerTaskId = lastOp'.requests[1].result
                /\ modelJobs'[j].providerTaskId # ""
        /\ ( /\ lastOp'.op = "sync" /\ lastOp'.id = j
             /\ modelJobs[j].providerStatus = "ERROR_ON_START"
             /\ modelJobs[j].providerTaskId # "" )
             => lastOp'.error # "provider_task_missing" ]_vars

\* the restart of a started job was answered 500: the job is in erro and still
\* holds the handle of the earlier task
C25_Witness ==
  /\ lastOp.op = "start" /\ lastOp.code = 502
  /\ Len(lastOp.requests) = 1 /\ lastOp.requests[1].status = 500
  /\ lastOp.id \in DOMAIN modelJobs
  /\ modelJobs[lastOp.id].status = "erro"
  /\ modelJobs[lastOp.id].provider = "meshy"
  /\ modelJobs[lastOp.id].providerTaskId = "task-A"

\* C26: a stored job comes to be in triagem only by a direct edit, and in
\* enviado only by its creation or a direct edit; a start or a sync never
\* leaves a job in triagem or enviado that was not there before it.
C26_QueueStatuses ==
  [][ \A j \in DOMAIN modelJobs' :
        LET before == IF j \in DOMAIN modelJobs THEN modelJobs[j].status ELSE "" IN
        /\ (modelJobs'[j].status = "triagem" /\ before # "triagem")
             => (lastOp'.op = "updateJob" /\ lastOp'.id = j /\ lastOp'.code = 200)
        /\ (modelJobs'[j].status = "enviado" /\ before # "enviado")
             => \/ lastOp'.op = "createJob" /\ lastOp'.code = 200 /\ before = ""
                \/ lastOp'.op = "updateJob" /\ lastOp'.id = j /\ lastOp'.code = 200
        /\ (lastOp'.op \in {"start", "sync"} /\ modelJobs'[j].status \in {"triagem", "enviado"})
             => (j \in DOMAIN modelJobs /\ modelJobs'[j] = modelJobs[j]) ]_vars

\* a started job was put in triagem by a direct edit
C26_Witness ==
  /\ lastOp.op = "updateJob" /\ lastOp.code = 200
  /\ lastOp.edit.status = "triagem"
  /\ lastOp.id \in DOMAIN modelJobs
  /\ modelJobs[lastOp.id].status = "triagem"
  /\ modelJobs[lastOp.id].providerTaskId = "task-A"

----------------------------------------------------------------------------
(* SpecPublish: materialization and the publish cascade.  The provider      *)
(* finishes tasks with result URLs, downloads succeed or fail, and both the *)
(* job's and the item's model fields are edited directly.                   *)

PublishPolls ==
  {Poll(500, 404, NoTask, DownloadsOk)}
  \cup AnsweredPolls({<<200, 404>>},
                     {Task("IN_PROGRESS", Empty, Empty)}
                     \cup {Task("SUCCEEDED", g, u) : g \in GlbOffers, u \in UsdzOffers})

PublishEdits ==
  {EditBody(st, Undefined, Undefined, Absent) : st \in {"revisao", "PUBLICADO"}}
  \cup {EditBody(Absent, g, Undefined, Absent) : g \in JobGlbInputs \ {Undefined}}

InitPublish ==
  /\ inflight = {}
  /\ meshyKey = TRUE
  /\ items = ItemWithPhoto
  /\ modelJobs = NoJobs
  /\ files = NoFiles
  /\ lastOp = Reply("init", "", 0, "")

PubCreateJob ==
  \E caller \in Clients, autoMode \in BOOLEAN :
    CreateJob(caller, "r1", [itemId |-> "i-1", sourceType |-> "upload",
                             provider |-> "meshy", autoMode |-> autoMode])

PubUpdateItem ==
  \E caller \in Clients, itemId \in ItemIdPool, glb \in ItemGlbInputs :
    UpdateItem(caller, itemId, [image |-> Undefined, modelGlb |-> glb, modelUsdz |-> Undefined])

PubUpdateJob ==
  \E caller \in Clients, jobId \in JobIdPool, body \in PublishEdits :
    UpdateJob(caller, jobId, body)

PubStartAi ==
  \E caller \in Clients, jobId \in JobIdPool :
    StartAi(caller, jobId, [provider |-> Absent],
            [status |-> 200, payload |-> [result |-> "task-A"]])

PubSyncAi ==
  \E caller \in Clients, jobId \in JobIdPool, autoPublish \in AutoPublishInputs,
     poll \in PublishPolls :
    SyncAi(caller, jobId, autoPublish, poll.respond, poll.dl)

NextPublish ==
  \/ PubCreateJob
  \/ PubUpdateItem
  \/ PubUpdateJob
  \/ PubStartAi
  \/ PubSyncAi

SpecPublish == InitPublish /\ [][NextPublish]_vars

----------------------------------------------------------------------------
(* Properties of SpecPublish *)

\* the formats of a model and the field that holds each
Formats == {"modelGlb", "modelUsdz"}
ExtOf(field) == IF field = "modelGlb" THEN ".glb" ELSE ".usdz"
OfferOf(offered, field) == IF field = "modelGlb" THEN offered.glb ELSE offered.usdz

\* the provider statuses that report a finished, successful task
SuccessTerminal == {"SUCCEEDED", "COMPLETED"}

\* the last response is that of a sync the provider answered with a task
Polled ==
  /\ lastOp.op = "sync" /\ lastOp.requests # <<>>
  /\ lastOp.requests[Len(lastOp.requests)].status = 200
  /\ lastOp.id \in DOMAIN modelJobs

\* the status the provider reported to the last sync
Reported == lastOp.requests[Len(lastOp.requests)].result

\* C3: when a job's modelGlb (modelUsdz) is non-empty before a sync, a
\* successful sync in which the provider offers a URL for that format leaves
\* the field as it was and downloads nothing for that format.
C3_FillsOnlyEmpty ==
  [][ \A j \in DOMAIN modelJobs \cap DOMAIN modelJobs', f \in Formats :
        ( /\ lastOp'.op = "sync" /\ lastOp'.code = 200 /\ lastOp'.id = j
          /\ modelJobs[j][f] # Empty
          /\ OfferOf(lastOp'.offered, f) # Empty )
        => /\ modelJobs'[j][f] = modelJobs[j][f]
           /\ \A k \in 1..Len(lastOp'.downloads) : lastOp'.downloads[k].ext # ExtOf(f) ]_vars

\* a successful sync was offered a GLB for a job whose modelGlb a direct edit
\* had set, and fetched nothing for it
C3_Witness ==
  /\ lastOp.op = "sync" /\ lastOp.code = 200
  /\ lastOp.offered.glb # Empty
  /\ \A k \in 1..Len(lastOp.downloads) : lastOp.downloads[k].ext # ".glb"
  /\ lastOp.id \in DOMAIN modelJobs
  /\ modelJobs[lastOp.id].modelGlb.id = "manual"

\* C4: when a sync or a direct edit succeeds and leaves the job in publicado,
\* then for modelGlb and for modelUsdz: a non-empty job field is the linked
\* item's field afterwards, and an empty job field leaves the item's field as
\* it was before the operation.
C4_PublishCascade ==
  [][ \A j \in DOMAIN modelJobs', f \in Formats :
        ( /\ lastOp'.op \in {"sync", "updateJob"} /\ lastOp'.code = 200 /\ lastOp'.id = j
          /\ modelJobs'[j].status = "publicado"
          /\ modelJobs'[j].itemId \in DOMAIN items \cap DOMAIN items' )
        => LET i == modelJobs'[j].itemId IN
           IF modelJobs'[j][f] # Empty
             THEN items'[i][f] = modelJobs'[j][f]
             ELSE items'[i][f] = items[i][f] ]_vars

\* a job published with a GLB and no USDZ: the item carries the job's GLB and
\* keeps the USDZ it had
C4_Witness ==
  /\ lastOp.op \in {"sync", "updateJob"} /\ lastOp.code = 200
  /\ lastOp.id \in DOMAIN modelJobs
  /\ modelJobs[lastOp.id].status = "publicado"
  /\ modelJobs[lastOp.id].modelGlb # Empty
  /\ modelJobs[lastOp.id].modelUsdz = Empty
  /\ items[modelJobs[lastOp.id].itemId].modelGlb = modelJobs[lastOp.id].modelGlb

UnmarkedProviderStatus == {"", "SUBMITTED"} \cup RawStatuses

\* C11: a sync that fails (the provider fetch or an artifact download threw,
\* answer 502) leaves the job in erro with a providerStatus that records the
\* failure, that is, a value other than the ones a start or a provider report
\* leaves there.
C11_AsStated ==
  (lastOp.op = "sync" /\ lastOp.code = 502)
    => /\ modelJobs[lastOp.id].status = "erro"
       /\ modelJobs[lastOp.id].providerStatus \notin UnmarkedProviderStatus

\* C12: a sync told of success whose GLB download succeeds and whose USDZ
\* download fails keeps the stored GLB path in the job and leaves the job in
\* revisao, not erro.
C12_AsStated ==
  ( /\ lastOp.op = "sync"
    /\ lastOp.downloads = <<Download(".glb", 200), Download(".usdz", 500)>> )
    => /\ modelJobs[lastOp.id].modelGlb.scheme = "/uploads/"
       /\ modelJobs[lastOp.id].modelGlb.dir = "models"
       /\ modelJobs[lastOp.id].status = "revisao"


----------------------------------------------------------------------------
(* SpecStart: the images a start submits. The item begins without a       *)
(* listing image; scans and reference images are uploaded, the listing     *)
(* image is edited, and jobs are started against a provider that accepts   *)
(* or refuses the task.                                                    *)

ItemWithoutPhoto == [i \in {"i-1"} |-> NewItem("r1")]

StartPhotos == {Photo(".jpg", "A"), Photo(".PNG", "A"), Photo(".gif", "A")}

InitStart ==
  /\ inflight = {}
  /\ meshyKey = TRUE
  /\ items = ItemWithoutPhoto
  /\ modelJobs = NoJobs
  /\ files = NoFiles
  /\ lastOp = Reply("init", "", 0, "")

StartCreateJob ==
  \E caller \in Clients, provider \in {"meshy", "manual"} :
    CreateJob(caller, "r1", [itemId |-> "i-1", sourceType |-> "upload",
                             provider |-> provider, autoMode |-> FALSE])

StartUpdateItem ==
  \E caller \in {Owner}, itemId \in ItemIdPool, image \in ItemImageInputs :
    UpdateItem(caller, itemId, [image |-> image, modelGlb |-> Undefined,
                                modelUsdz |-> Undefined])

StartUploadScan ==
  \E caller \in {Owner}, itemId \in ItemIdPool, photo \in StartPhotos :
    UploadScan(caller, itemId, photo)

StartUploadJobImages ==
  \E caller \in {Owner}, jobId \in JobIdPool, photo \in StartPhotos :
    UploadJobImages(caller, jobId, <<photo>>)

StartDeleteJob == \E caller \in {Owner}, jobId \in JobIdPool : DeleteJob(caller, jobId)

StartStartAi ==
  \E caller \in Clients, jobId \in JobIdPool, provider \in {Absent, "MESHY"},
     reply \in StartReplies :
    StartAi(caller, jobId, [provider |-> provider], reply)

NextStart ==
  \/ StartCreateJob
  \/ StartUpdateItem
  \/ StartUploadScan
  \/ StartUploadJobImages
  \/ StartDeleteJob
  \/ StartStartAi

SpecStart == InitStart /\ [][NextStart]_vars

----------------------------------------------------------------------------
(* Properties of SpecStart *)

\* the errors with which start turns a request away before it looks for images
RefusedBeforeImages ==
  {"job_not_found", "forbidden", "item_not_found", "provider_invalid",
   "provider_not_configured", "provider_not_implemented"}

\* C7: a start of a job without reference images whose item has no scans and
\* no listing image sends nothing to the provider and leaves the job as it
\* was; when the caller and the provider are accepted it answers 400
\* image_source_not_found.
C7_NoImageSource ==
  [][ \A j \in DOMAIN modelJobs :
        ( /\ lastOp'.op = "start" /\ lastOp'.id = j
          /\ modelJobs[j].itemId \in DOMAIN items
          /\ modelJobs[j].referenceImages = <<>>
          /\ items[modelJobs[j].itemId].scans = <<>>
          /\ items[modelJobs[j].itemId].image = Empty )
        => /\ lastOp'.requests = <<>>
           /\ modelJobs' = modelJobs
           /\ lastOp'.error \notin RefusedBeforeImages
                => (lastOp'.code = 400 /\ lastOp'.error = "image_source_not_found") ]_vars

\* a start found no image for a job in enviado, which stays in enviado with no task
C7_Witness ==
  /\ lastOp.op = "start" /\ lastOp.code = 400
  /\ lastOp.error = "image_source_not_found"
  /\ lastOp.requests = <<>>
  /\ lastOp.id \in DOMAIN modelJobs
  /\ modelJobs[lastOp.id].status = "enviado"
  /\ modelJobs[lastOp.id].providerTaskId = ""
  /\ modelJobs[lastOp.id].referenceImages = <<>>
  /\ items[modelJobs[lastOp.id].itemId].scans = <<>>
  /\ items[modelJobs[lastOp.id].itemId].image = Empty


----------------------------------------------------------------------------
(* SpecInputs: the image inputs of one start, over drawn stores.  The job  *)
(* holds up to MaxDrawnRefs uploaded reference images, two of them copies  *)
(* of the same photo; the item holds up to MaxDrawnScans scans and maybe a *)
(* listing image.                                                          *)

RefFile(id, ext) == Str("/uploads/", "job-images/mj-1", id, ext)
ScanFile(id, ext) == Str("/uploads/", "scans/i-1", id, ext)

\* the uploads directory of the drawn stores: stored path -> content
DrawnFiles ==
  [f \in {RefFile("r1", ".jpg"), RefFile("r2", ".jpg"), RefFile("r3", ".png"),
          RefFile("r4", ".jpg"), RefFile("r5", ".webp"),
          ScanFile("s1", ".jpg"), ScanFile("s2", ".jpeg")} |->
     CASE f.id \in {"r1", "r4", "s2"} -> "A"
       [] f.id = "r2" -> "B"
       [] f.id = "r3" -> "C"
       [] f.id = "r5" -> "D"
       [] OTHER -> "E"]

\* the sequences without repetition of at most n stored paths of a directory
RECURSIVE Arrangements(_, _)
Arrangements(paths, n) ==
  IF n = 0 THEN {<<>>}
  ELSE {<<>>} \cup UNION {{<<p>> \o rest : rest \in Arrangements(paths \ {p}, n - 1)} :
                            p \in paths}

InitInputs ==
  /\ inflight = {}
  /\ meshyKey = TRUE
  /\ files = DrawnFiles
  /\ \E scans \in Arrangements({f \in DOMAIN DrawnFiles : f.dir = "scans/i-1"}, MaxDrawnScans),
        image \in {Empty, RemoteImage} :
       items = [i \in {"i-1"} |-> [NewItem("r1") EXCEPT !.scans = scans, !.image = image]]
  /\ \E refs \in Arrangements({f \in DOMAIN DrawnFiles : f.dir = "job-images/mj-1"},
                               MaxDrawnRefs) :
       modelJobs = [j \in {"mj-1"} |->
                      [NewJob("r1", "i-1", "upload", "meshy", FALSE) EXCEPT
                         !.referenceImages = refs]]
  /\ lastOp = Reply("init", "", 0, "")

InputsStartAi ==
  \E caller \in Clients, jobId \in JobIdPool :
    StartAi(caller, jobId, [provider |-> Absent],
            [status |-> 200, payload |-> [result |-> "task-A"]])

NextInputs == InputsStartAi

SpecInputs == InitInputs /\ [][NextInputs]_vars

----------------------------------------------------------------------------
(* Properties of SpecInputs *)

\* the job and the item of the last start, and the candidates in the order
\* of priority: reference images newest first, scans newest first, listing image
StartedJob == modelJobs[lastOp.id]
StartedItem == items[StartedJob.itemId]
Candidates ==
  [k \in 1..Len(StartedJob.referenceImages) |->
     StartedJob.referenceImages[Len(StartedJob.referenceImages) + 1 - k]]
  \o [k \in 1..Len(StartedItem.scans) |->
       StartedItem.scans[Len(StartedItem.scans) + 1 - k]]
  \o (IF StartedItem.image = Empty THEN <<>> ELSE <<StartedItem.image>>)

\* 1 for a reference image, 2 for a scan, 3 for the listing image
Tier(p) ==
  IF p <= Len(StartedJob.referenceImages) THEN 1
  ELSE IF p <= Len(StartedJob.referenceImages) + Len(StartedItem.scans) THEN 2
  ELSE 3

\* the input a candidate resolves to (Empty when it resolves to nothing)
Resolved(p) == resolveImageCandidate(Candidates[p]).value

\* the position of the candidate that first yields an input
FirstPos(input) ==
  CHOOSE p \in 1..Len(Candidates) :
    /\ Resolved(p) = input
    /\ \A q \in 1..(p - 1) : Resolved(q) # input

\* the last response is that of a start that submitted image inputs
Submitted ==
  /\ lastOp.op = "start" /\ lastOp.code = 200
  /\ lastOp.id \in DOMAIN modelJobs

\* C5 as stated: at most four inputs, in priority order, and the candidate
\* behind an input is included only when fewer than four candidates of higher
\* priority (reference images before scans before the listing image) resolved.
C5_AsStated ==
  Submitted =>
    /\ Len(lastOp.images) <= 4
    /\ \A k \in 1..Len(lastOp.images) :
         /\ \E p \in 1..Len(Candidates) : Resolved(p) = lastOp.images[k]
         /\ \A l \in 1..(k - 1) : FirstPos(lastOp.images[l]) < FirstPos(lastOp.images[k])
         /\ Cardinality({q \in 1..Len(Candidates) :
                           /\ Tier(q) < Tier(FirstPos(lastOp.images[k]))
                           /\ Resolved(q) # Empty}) < 4

\* C5: a start submits at most four inputs; they are the distinct inputs the
\* candidates resolve to, in priority order (reference images newest first,
\* scans newest first, listing image), each at its first occurrence; an input
\* is left out only when four inputs of higher priority were found, so the
\* candidate behind an input is included only when the candidates before it
\* yielded fewer than four distinct inputs.
C5_InputsCapAndOrder ==
  Submitted =>
    /\ Len(lastOp.images) <= 4
    /\ \A k \in 1..Len(lastOp.images) :
         /\ lastOp.images[k] # Empty
         /\ \E p \in 1..Len(Candidates) : Resolved(p) = lastOp.images[k]
         /\ \A l \in 1..(k - 1) : FirstPos(lastOp.images[l]) < FirstPos(lastOp.images[k])
         /\ Cardinality({Resolved(q) : q \in 1..(FirstPos(lastOp.images[k]) - 1)}
                        \ {Empty}) = k - 1
    /\ \A p \in 1..Len(Candidates) :
         (Resolved(p) # Empty /\ Resolved(p) \notin Range(lastOp.images))
           => /\ Len(lastOp.images) = 4
              /\ FirstPos(lastOp.images[4]) < p

\* a start for a job with five reference images, two of them copies of one
\* photo, and a scan: four inputs go out and the scan is among them
C5_Witness ==
  /\ Submitted
  /\ Len(StartedJob.referenceImages) = 5
  /\ Len(lastOp.images) = 4
  /\ \E p \in 1..Len(Candidates) : Tier(p) = 2 /\ Resolved(p) \in Range(lastOp.images)

----------------------------------------------------------------------------
(* SpecConfig: the provider credential.  The server is restarted with or   *)
(* without MESHY_API_KEY in its environment while jobs wait in the store,  *)
(* so that a job started with the credential is polled without it.         *)

\* the process starts again and reads process.env.MESHY_API_KEY anew
Restart(key) ==
  /\ inflight = {}
  /\ meshyKey' = key
  /\ lastOp' = Reply("restart", "", 0, "")
  /\ UNCHANGED <<inflight, items, modelJobs, files>>

InitConfig ==
  /\ inflight = {}
  /\ meshyKey \in BOOLEAN
  /\ items = ItemWithPhoto
  /\ modelJobs = NoJobs
  /\ files = NoFiles
  /\ lastOp = Reply("init", "", 0, "")

ConfigRestart == \E key \in BOOLEAN : Restart(key)

NextConfig ==
  \/ PubCreateJob
  \/ PubStartAi
  \/ PubSyncAi
  \/ ConfigRestart

SpecConfig == InitConfig /\ [][NextConfig]_vars

----------------------------------------------------------------------------
(* Properties of SpecConfig *)

\* C13: while the provider credential is missing, a start or a sync of an
\* existing job by a caller who may access it is answered with a 4xx status
\* and leaves the job record as it was.
C13_AsStated ==
  [][ \A j \in DOMAIN modelJobs :
        ( /\ ~meshyKey
          /\ lastOp'.op \in {"start", "sync"} /\ lastOp'.id = j
          /\ lastOp'.code # 403 )
        => /\ lastOp'.code \in 400..499
           /\ modelJobs' = modelJobs ]_vars

----------------------------------------------------------------------------
(* SpecEdit: direct edits that carry several fields at once, valid ones    *)
(* next to an invalid status or an unknown provider, on jobs in any status *)
(* a previous edit left; the item's model fields are edited as well.       *)

ManualGlb == Str("/uploads/", "models", "manual", ".glb")
ManualUsdz == Str("/uploads/", "models", "manual", ".usdz")

MixedEdits ==
  {EditBody(st, g, u, p) :
     st \in {Absent, "revisao", "PUBLICADO", "arquivado"},
     g \in {Undefined, ManualGlb},
     u \in {Undefined, ManualUsdz},
     p \in {Absent, "MESHY", "luma"}}

InitEdit ==
  /\ inflight = {}
  /\ meshyKey = TRUE
  /\ items = ItemWithPhoto
  /\ modelJobs = NoJobs
  /\ files = NoFiles
  /\ lastOp = Reply("init", "", 0, "")

EditCreateJob ==
  \E caller \in Clients :
    CreateJob(caller, "r1", [itemId |-> "i-1", sourceType |-> "upload",
                             provider |-> "manual", autoMode |-> FALSE])

EditUpdateItem ==
  \E caller \in Clients, itemId \in ItemIdPool, glb \in ItemGlbInputs :
    UpdateItem(caller, itemId, [image |-> Undefined, modelGlb |-> glb, modelUsdz |-> Undefined])

EditUpdateJob ==
  \E caller \in Users, jobId \in JobIdPool, body \in MixedEdits :
    UpdateJob(caller, jobId, body)

NextEdit ==
  \/ EditCreateJob
  \/ EditUpdateItem
  \/ EditUpdateJob

SpecEdit == InitEdit /\ [][NextEdit]_vars

----------------------------------------------------------------------------
(* Properties of SpecEdit *)

\* the status words and the provider ids a direct edit accepts
StatusEnum == {"enviado", "triagem", "processando", "revisao", "publicado", "erro"}
KnownProviders == {"meshy", "manual"}

\* the body names a status outside the enum or an unknown provider
InvalidEdit(body) ==
  \/ body.status # Absent /\ toLowerCase(body.status) \notin StatusEnum
  \/ body.provider # Absent /\ toLowerCase(body.provider) \notin KnownProviders

\* C16: a direct edit, by a caller who may access the job, whose status is
\* outside the enum or whose provider is unknown is answered 400 and leaves
\* the job store and the items as they were: no field of the request is
\* persisted, the valid ones included, and the linked item is not changed.
C16_InvalidEditDropped ==
  [][ \A j \in DOMAIN modelJobs :
        ( /\ lastOp'.op = "updateJob" /\ lastOp'.id = j /\ lastOp'.code # 403
          /\ InvalidEdit(lastOp'.edit) )
        => /\ lastOp'.code = 400
           /\ lastOp'.error \in {"status_invalid", "provider_invalid"}
           /\ UNCHANGED <<items, modelJobs, files>> ]_vars

\* an edit to publicado with a GLB path and an unknown provider was refused:
\* the job is not published, has no GLB, and the item has none either
C16_Witness ==
  /\ lastOp.op = "updateJob" /\ lastOp.code = 400
  /\ lastOp.error = "provider_invalid"
  /\ lastOp.edit.status = "PUBLICADO"
  /\ lastOp.edit.modelGlb = ManualGlb
  /\ lastOp.edit.provider = "luma"
  /\ modelJobs[lastOp.id].status = "enviado"
  /\ modelJobs[lastOp.id].modelGlb = Empty
  /\ items[modelJobs[lastOp.id].itemId].modelGlb = Empty

----------------------------------------------------------------------------
(* SpecUpload: reference image uploads of one or two files, image files    *)
(* and others mixed in one call, by the owner, a stranger and the master.  *)

UploadCalls ==
  LET photos == {Photo(".jpg", "A"), Photo(".PNG", "B"), Photo(".webp", "C"),
                 Photo(".gif", "D")} IN
  {<<p>> : p \in photos} \cup {<<p, q>> : p \in photos, q \in photos}

InitUpload ==
  /\ inflight = {}
  /\ meshyKey = TRUE
  /\ items = ItemWithPhoto
  /\ modelJobs = NoJobs
  /\ files = NoFiles
  /\ lastOp = Reply("init", "", 0, "")

UpCreateJob ==
  \E caller \in Clients, autoMode \in BOOLEAN :
    CreateJob(caller, "r1", [itemId |-> "i-1", sourceType |-> "upload",
                             provider |-> "meshy", autoMode |-> autoMode])

UpUploadJobImages ==
  \E caller \in Users, jobId \in JobIdPool, photos \in UploadCalls :
    UploadJobImages(caller, jobId, photos)

UpDeleteJob == \E caller \in Clients, jobId \in JobIdPool : DeleteJob(caller, jobId)

NextUpload ==
  \/ UpCreateJob
  \/ UpUploadJobImages
  \/ UpDeleteJob

SpecUpload == InitUpload /\ [][NextUpload]_vars

----------------------------------------------------------------------------
(* Properties of SpecUpload *)

\* the extensions of the allow-list
AllowList == {".jpg", ".jpeg", ".png", ".webp"}

\* the call carried a file whose extension, in lower case, is not in the allow-list
CarriedOther(reply) ==
  \E k \in 1..Len(reply.photos) : toLowerCase(reply.photos[k]) \notin AllowList

----------------------------------------------------------------------------
(* SpecResync: a finished task polled again and again.  The provider       *)
(* reports a terminal status, with or without result URLs, the artifact    *)
(* host answers or fails each download, and the caller asks for            *)
(* auto-publish or not.                                                    *)

ResyncPolls ==
  AnsweredPolls({<<200, 404>>},
                {Task("FAILED", Empty, Empty)}
                \cup {Task("SUCCEEDED", g, u) :
                        g \in {Empty, Str("https://", "assets.meshy.ai", "out", ".glb")},
                        u \in UsdzOffers})

ResyncSyncAi ==
  \E caller \in Clients, jobId \in JobIdPool, autoPublish \in {Absent, "true"},
     poll \in ResyncPolls :
    SyncAi(caller, jobId, autoPublish, poll.respond, poll.dl)

NextResync ==
  \/ PubCreateJob
  \/ PubStartAi
  \/ ResyncSyncAi

SpecResync == InitPublish /\ [][NextResync]_vars

----------------------------------------------------------------------------
(* Properties of SpecResync *)

Terminal == {"SUCCEEDED", "FAILED"}

\* the reply is that of a sync of job j to which the provider reported a
\* terminal status
ToldTerminal(reply, j) ==
  /\ reply.op = "sync" /\ reply.id = j
  /\ reply.requests # <<>>
  /\ reply.requests[Len(reply.requests)].status = 200
  /\ reply.requests[Len(reply.requests)].result \in Terminal

\* two syncs were given the same flag and the same answers: the provider
\* reported the same status and the same URLs, and a download both attempted
\* was answered alike
SameAnswers(first, second) ==
  /\ first.autoPublish = second.autoPublish
  /\ first.requests[Len(first.requests)].result
       = second.requests[Len(second.requests)].result
  /\ first.offered = second.offered
  /\ \A a \in Range(first.downloads), b \in Range(second.downloads) :
       a.ext = b.ext => a.status = b.status

\* C20: when a sync of a job to which the provider reported a terminal status
\* is followed at once by a sync of the same job with the same autoPublish
\* flag and the same answers, the second leaves status, modelGlb, modelUsdz
\* and the items as the first left them, and downloads nothing for a format
\* the first call stored.
C20_TerminalResync ==
  [][ \A j \in DOMAIN modelJobs \cap DOMAIN modelJobs' :
        ( /\ ToldTerminal(lastOp, j) /\ ToldTerminal(lastOp', j)
          /\ SameAnswers(lastOp, lastOp') )
        => /\ modelJobs'[j].status = modelJobs[j].status
           /\ modelJobs'[j].modelGlb = modelJobs[j].modelGlb
           /\ modelJobs'[j].modelUsdz = modelJobs[j].modelUsdz
           /\ items' = items
           /\ \A a \in Range(lastOp.downloads), b \in Range(lastOp'.downloads) :
                a.status = 200 => b.ext # a.ext ]_vars

\* the second of two auto-publishing syncs told of success with a GLB URL:
\* it fetched nothing and the job is published with the stored copy
C20_Witness ==
  /\ lastOp.op = "sync" /\ lastOp.code = 200
  /\ lastOp.repeated /\ lastOp.sameFlag
  /\ lastOp.autoPublish = "true"
  /\ Reported = "SUCCEEDED"
  /\ lastOp.offered.glb # Empty
  /\ lastOp.downloads = <<>>
  /\ modelJobs[lastOp.id].modelGlb.dir = "models"
  /\ modelJobs[lastOp.id].status = "publicado"

----------------------------------------------------------------------------
(* SpecRace: requests that overlap.  requireAuth reads the whole store     *)
(* (readDb) and hands the snapshot to the handler; the handler assigns to  *)
(* the snapshot and writeDb replaces the whole store with it.  A request   *)
(* is in flight between the two, and other requests read and write the     *)
(* store meanwhile.                                                        *)

MaxInflight == 2    \* requests in flight at once

\* what readDb returns
Store == [items |-> items, modelJobs |-> modelJobs]

\* a request past requireAuth: its route, the id in its path, its body and
\* the snapshot of the store it holds
Pending(slot, kind, id, edit) ==
  [slot |-> slot, kind |-> kind, id |-> id, edit |-> edit, db |-> Store]

RaceJobBody == [itemId |-> "i-1", sourceType |-> "upload", provider |-> "meshy",
                autoMode |-> FALSE]

\* the provider reports success with a GLB and every download succeeds
RacePoll ==
  Poll(200, 404, Task("SUCCEEDED", Str("https://", "assets.meshy.ai", "out", ".glb"), Empty),
       DownloadsOk)

RaceEdits ==
  {EditBody(Absent, ManualGlb, Undefined, Absent),
   EditBody("triagem", Undefined, Undefined, Absent)}

requireAuth(kind, id, edit) ==
  /\ Cardinality(inflight) < MaxInflight
  /\ LET slot == CHOOSE n \in 1..MaxInflight : \A p \in inflight : p.slot # n IN
     inflight' = inflight \cup {Pending(slot, kind, id, edit)}
  /\ UNCHANGED <<meshyKey, items, modelJobs, files, lastOp>>

\* a faulty variant of the operator below: the write is given up when the
\* store is no longer the one the request read
writeDbIfCurrent(read, db) == IF Store = read THEN db ELSE Store

\* a faulty variant of the operator below: only the records the request
\* changed in its snapshot are written, the others stay as the store has them
writeDbMerged(read, db) ==
  [items |-> [i \in DOMAIN Store.items |->
                IF i \in DOMAIN db.items \cap DOMAIN read.items /\ db.items[i] # read.items[i]
                  THEN db.items[i] ELSE Store.items[i]],
   modelJobs |-> [j \in DOMAIN Store.modelJobs |->
                    IF j \in DOMAIN db.modelJobs \cap DOMAIN read.modelJobs
                       /\ db.modelJobs[j] # read.modelJobs[j]
                      THEN db.modelJobs[j] ELSE Store.modelJobs[j]]]

\* writeDb: the file is replaced by the snapshot of the request, whatever
\* the store holds by then
writeDb(read, db) == db

\* the fields of the job of request p that differ, in the store, from the
\* snapshot p holds, with their values in the store
lostFields(p) ==
  IF p.id \in DOMAIN modelJobs /\ p.id \in DOMAIN p.db.modelJobs
    THEN [f \in {g \in DOMAIN modelJobs[p.id] :
                   modelJobs[p.id][g] # p.db.modelJobs[p.id][g]} |-> modelJobs[p.id][f]]
    ELSE <<>>

\* the handler of p returns without writing
Answered(p, reply) ==
  /\ inflight' = inflight \ {p}
  /\ lastOp' = reply
  /\ UNCHANGED <<meshyKey, items, modelJobs, files>>

\* the handler of p writes its snapshot db, removes the directories dirs and answers
Written(p, db, dirs, reply) ==
  /\ \E w \in {writeDb(p.db, db)} :
       /\ items' = w.items
       /\ modelJobs' = w.modelJobs
  /\ files' = removeDirs(dirs)
  /\ inflight' = inflight \ {p}
  /\ lastOp' = [reply EXCEPT !.lost = lostFields(p)]
  /\ UNCHANGED meshyKey

\* the items of a snapshot after the cascade that follows a write of a published job
cascadeOn(its, job) ==
  IF job.status = "publicado" /\ job.itemId \in DOMAIN its
    THEN [its EXCEPT ![job.itemId] = publishToItem(@, job)]
    ELSE its

RaceCreateJob(p) ==
  /\ p.kind = "createJob"
  /\ \E id \in JobIdPool : id \notin DOMAIN p.db.modelJobs \cup DOMAIN modelJobs
  /\ LET body == RaceJobBody
         providerId == toLowerCase(body.provider) IN
     IF ~canAccessRestaurant(Owner, p.id)
       THEN Answered(p, Reply("createJob", "", 403, "forbidden"))
     ELSE IF body.itemId \notin DOMAIN p.db.items
             \/ p.db.items[body.itemId].restaurantId # p.id
       THEN Answered(p, Reply("createJob", "", 400, "item_invalid"))
     ELSE IF getAiProvider(providerId) = {}
       THEN Answered(p, Reply("createJob", "", 400, "provider_invalid"))
     ELSE LET id == CHOOSE j \in JobIdPool : j \notin DOMAIN p.db.modelJobs \cup DOMAIN modelJobs IN
          Written(p,
                  [p.db EXCEPT !.modelJobs =
                     [j \in DOMAIN p.db.modelJobs \cup {id} |->
                        IF j = id
                          THEN NewJob(p.id, body.itemId, body.sourceType, providerId, body.autoMode)
                          ELSE p.db.modelJobs[j]]],
                  {}, Reply("createJob", id, 200, ""))

RaceDeleteItem(p) ==
  /\ p.kind = "deleteItem"
  /\ IF p.id \notin DOMAIN p.db.items
       THEN Answered(p, Reply("deleteItem", p.id, 404, "item_not_found"))
     ELSE IF ~canAccessRestaurant(Owner, p.db.items[p.id].restaurantId)
       THEN Answered(p, Reply("deleteItem", p.id, 403, "forbidden"))
     ELSE LET removedJobs == {j \in DOMAIN p.db.modelJobs : p.db.modelJobs[j].itemId = p.id} IN
          Written(p,
                  [items |-> [i \in DOMAIN p.db.items \ {p.id} |-> p.db.items[i]],
                   modelJobs |-> [j \in DOMAIN p.db.modelJobs \ removedJobs |-> p.db.modelJobs[j]]],
                  {"scans/" \o p.id} \cup {"job-images/" \o j : j \in removedJobs},
                  Reply("deleteItem", p.id, 200, ""))

RaceUpdateJob(p) ==
  /\ p.kind = "updateJob"
  /\ IF p.id \notin DOMAIN p.db.modelJobs
       THEN Answered(p, Reply("updateJob", p.id, 404, "job_not_found"))
     ELSE IF ~canAccessRestaurant(Owner, p.db.modelJobs[p.id].restaurantId)
       THEN Answered(p, Reply("updateJob", p.id, 403, "forbidden"))
     ELSE \E e \in {editedJob(p.db.modelJobs[p.id], p.edit)} :
          IF e.error # ""
            THEN Answered(p, [Reply("updateJob", p.id, 400, e.error) EXCEPT !.edit = p.edit])
            ELSE Written(p,
                         [items |-> cascadeOn(p.db.items, e.job),
                          modelJobs |-> [p.db.modelJobs EXCEPT ![p.id] = e.job]],
                         {}, [Reply("updateJob", p.id, 200, "") EXCEPT !.edit = p.edit])

\* the sync route on the snapshot of request p, with what the provider and
\* the artifact host answer
RaceSyncWith(p, poll) ==
  /\ p.kind = "sync"
  /\ HasFreshIds
  /\ IF p.id \notin DOMAIN p.db.modelJobs
       THEN Answered(p, Reply("sync", p.id, 404, "job_not_found"))
     ELSE LET job == p.db.modelJobs[p.id] IN
          IF ~canAccessRestaurant(Owner, job.restaurantId)
            THEN Answered(p, Reply("sync", p.id, 403, "forbidden"))
          ELSE IF syncRefusal(job) # ""
            THEN Answered(p, Reply("sync", p.id, 400, syncRefusal(job)))
          ELSE \E r \in {syncJob(job, Absent, poll.respond, poll.dl)} :
               Written(p,
                       [items |-> IF r.code = 200 THEN cascadeOn(p.db.items, r.job)
                                  ELSE p.db.items,
                        modelJobs |-> [p.db.modelJobs EXCEPT ![p.id] = r.job]],
                       {},
                       [Reply("sync", p.id, r.code, r.error) EXCEPT
                          !.requests = r.requests, !.downloads = r.downloads,
                          !.offered = r.offered, !.autoPublish = Absent])

RaceSyncAi(p) == RaceSyncWith(p, RacePoll)

\* SpecRace: create-job and delete-item requests overlap, and reference
\* images are uploaded in between
InitRace ==
  /\ inflight = {}
  /\ meshyKey = TRUE
  /\ items = ItemWithPhoto
  /\ modelJobs = NoJobs
  /\ files = NoFiles
  /\ lastOp = Reply("init", "", 0, "")

RaceArrive ==
  \/ requireAuth("createJob", "r1", NoEdit)
  \/ \E itemId \in ItemIdPool : requireAuth("deleteItem", itemId, NoEdit)

RaceUploadJobImages ==
  \E jobId \in JobIdPool : UploadJobImages(Owner, jobId, <<Photo(".jpg", "A")>>)

NextRace ==
  \/ RaceArrive
  \/ \E p \in inflight : RaceCreateJob(p)
  \/ \E p \in inflight : RaceDeleteItem(p)
  \/ RaceUploadJobImages

SpecRace == InitRace /\ [][NextRace]_vars

\* SpecRaceJob: polls and direct edits of one started job overlap
StartedJobs ==
  [j \in {"mj-1"} |->
     [NewJob("r1", "i-1", "upload", "meshy", FALSE) EXCEPT
        !.status = "processando", !.providerStatus = "SUBMITTED",
        !.providerTaskId = "task-A", !.providerTaskEndpoint = "image-to-3d"]]

InitRaceJob ==
  /\ inflight = {}
  /\ meshyKey = TRUE
  /\ items = ItemWithPhoto
  /\ modelJobs = StartedJobs
  /\ files = NoFiles
  /\ lastOp = Reply("init", "", 0, "")

RaceJobArrive ==
  \/ \E jobId \in JobIdPool : requireAuth("sync", jobId, NoEdit)
  \/ \E jobId \in JobIdPool, body \in RaceEdits : requireAuth("updateJob", jobId, body)

NextRaceJob ==
  \/ RaceJobArrive
  \/ \E p \in inflight : RaceUpdateJob(p)
  \/ \E p \in inflight : RaceSyncAi(p)

SpecRaceJob == InitRaceJob /\ [][NextRaceJob]_vars

----------------------------------------------------------------------------
(* Properties of SpecRace *)

\* every stored job references a stored item of the job's restaurant
JobsHaveItems ==
  \A j \in DOMAIN modelJobs :
    /\ modelJobs[j].itemId \in DOMAIN items
    /\ items[modelJobs[j].itemId].restaurantId = modelJobs[j].restaurantId

\* a delete-item request that answers 200 leaves no job of that item in the
\* store and no stored reference image of a job of that item
DeleteItemCascades ==
  \A p \in inflight \ inflight' :
    (p.kind = "deleteItem" /\ lastOp'.code = 200)
      => \A j \in DOMAIN modelJobs :
           modelJobs[j].itemId = p.id
             => /\ j \notin DOMAIN modelJobs'
                /\ \A f \in DOMAIN files' : f.dir # "job-images/" \o j

\* C18: in every state reached by overlapping create-job and delete-item
\* requests, every stored job references a stored item of its restaurant; and
\* a delete-item request that succeeds leaves no job with that itemId in the
\* store and no stored reference image of such a job.
C18_AsStated == []JobsHaveItems /\ [][DeleteItemCascades]_vars

----------------------------------------------------------------------------
(* Properties of SpecRaceJob *)

\* the fields of a job that a sync never assigns
SyncKeeps == {"restaurantId", "itemId", "sourceType", "provider", "autoMode",
              "referenceImages", "providerTaskId"}

\* C19: nothing keeps two requests on one job apart, and the later write
\* wins: when a sync or a direct edit that read the job at requireAuth writes
\* and answers 200, the stored job is the job of its snapshot with the
\* request's own assignments, whatever another request stored in between.  A
\* field the request does not assign has the snapshot's value; a format the
\* sync downloaded has a newly stored path and not the path in the store.
C19_LastWriteWins ==
  [][ \A p \in inflight \ inflight' :
        ( /\ p.kind \in {"sync", "updateJob"} /\ lastOp'.code = 200
          /\ p.id \in DOMAIN modelJobs )
        => LET j == p.id
               read == p.db.modelJobs[j] IN
           /\ p.kind = "sync"
                => /\ \A f \in SyncKeeps : modelJobs'[j][f] = read[f]
                   /\ \A f \in Formats :
                        IF Download(ExtOf(f), 200) \in Range(lastOp'.downloads)
                          THEN /\ read[f] = Empty
                               /\ modelJobs'[j][f].dir = "models"
                               /\ modelJobs'[j][f].id \notin UsedIds
                               /\ modelJobs'[j][f] # modelJobs[j][f]
                          ELSE modelJobs'[j][f] = read[f]
           /\ p.kind = "updateJob"
                => /\ modelJobs'[j].status =
                        IF p.edit.status # Absent THEN toLowerCase(p.edit.status)
                        ELSE read.status
                   /\ modelJobs'[j].modelGlb =
                        IF p.edit.modelGlb # Undefined THEN p.edit.modelGlb
                        ELSE read.modelGlb
                   /\ modelJobs'[j].providerStatus = read.providerStatus ]_vars

\* two syncs read the job with an empty modelGlb and both downloaded the GLB:
\* the second to write replaced the path the first had stored with its own
C19_Witness ==
  /\ lastOp.op = "sync" /\ lastOp.code = 200
  /\ Download(".glb", 200) \in Range(lastOp.downloads)
  /\ "modelGlb" \in DOMAIN lastOp.lost
  /\ lastOp.lost.modelGlb.dir = "models"
  /\ lastOp.lost.modelGlb.id # "manual"
  /\ modelJobs[lastOp.id].modelGlb.dir = "models"
  /\ modelJobs[lastOp.id].modelGlb # lastOp.lost.modelGlb

----------------------------------------------------------------------------
(* SpecStatus: the words a provider may report.  A started job is polled   *)
(* and the provider answers with a status word in upper, lower or mixed    *)
(* case, with the empty word, or with a word the mapping does not name.    *)

StatusWords ==
  {"SUCCEEDED", "succeeded", "Succeeded", "COMPLETED", "completed", "Completed",
   "FAILED", "failed", "Failed", "ERROR", "error", "Error",
   "CANCELED", "canceled", "Canceled", "CANCELLED", "cancelled", "Cancelled",
   "IN_PROGRESS", "in_progress", "PENDING", "pending", "expired", "EXPIRED", ""}

StatusPolls ==
  AnsweredPolls({<<200, 404>>}, {Task(w, Empty, Empty) : w \in StatusWords})

StatusSyncAi ==
  \E caller \in Clients, jobId \in JobIdPool, poll \in StatusPolls :
    SyncAi(caller, jobId, Absent, poll.respond, poll.dl)

NextStatus ==
  \/ PubCreateJob
  \/ PubStartAi
  \/ StatusSyncAi

SpecStatus == InitPublish /\ [][NextStatus]_vars

----------------------------------------------------------------------------
(* Properties of SpecStatus *)

SuccessWords ==
  {"SUCCEEDED", "succeeded", "Succeeded", "COMPLETED", "completed", "Completed"}

FailureWords ==
  {"FAILED", "failed", "Failed", "ERROR", "error", "Error",
   "CANCELED", "canceled", "Canceled", "CANCELLED", "cancelled", "Cancelled"}

----------------------------------------------------------------------------
(* SpecOutcome: every way a start can end.  The credential is set or not,  *)
(* the item's listing image is absent, remote, or a stored path that is    *)
(* not on disk, the request names a known, unknown or unimplemented        *)
(* provider, and the provider accepts the task, answers without a task id  *)
(* or fails.  Syncs in between bring the job to the other statuses.        *)

OutcomePolls ==
  FailedPolls
  \cup AnsweredPolls({<<200, 404>>},
                     {Task(w, Empty, Empty) : w \in {"SUCCEEDED", "FAILED", "IN_PROGRESS"}})

InitOutcome ==
  /\ inflight = {}
  /\ meshyKey \in BOOLEAN
  /\ items = ItemWithoutPhoto
  /\ modelJobs = NoJobs
  /\ files = NoFiles
  /\ lastOp = Reply("init", "", 0, "")

OutcomeStartAi ==
  \E caller \in Clients, jobId \in JobIdPool, provider \in ProviderInputs,
     reply \in StartReplies :
    StartAi(caller, jobId, [provider |-> provider], reply)

OutcomeSyncAi ==
  \E caller \in {Owner}, jobId \in JobIdPool, poll \in OutcomePolls :
    SyncAi(caller, jobId, Absent, poll.respond, poll.dl)

NextOutcome ==
  \/ StartCreateJob
  \/ StartUpdateItem
  \/ OutcomeStartAi
  \/ OutcomeSyncAi

SpecOutcome == InitOutcome /\ [][NextOutcome]_vars

----------------------------------------------------------------------------
(* Properties of SpecOutcome *)

\* the start recorded in the reply was accepted: the credential is present,
\* at least one image was resolved and sent, and the provider answered 200
\* with a task id
StartAccepted(reply) ==
  /\ meshyKey
  /\ reply.images # <<>> /\ reply.imagesSent = Len(reply.images)
  /\ Len(reply.requests) = 1
  /\ reply.requests[1].status = 200
  /\ reply.requests[1].result # ""

\* C22: a start sets a job to processando only when the provider is meshy,
\* the credential is present, an image was resolved and the provider returned
\* a task id, and then providerTaskId is that id and providerStatus is
\* SUBMITTED; every other start leaves the job as it was or in erro.
C22_StartOutcome ==
  [][ \A j \in DOMAIN modelJobs :
        (lastOp'.op = "start" /\ lastOp'.id = j)
        => /\ (modelJobs'[j] # modelJobs[j] /\ modelJobs'[j].status = "processando")
                => /\ StartAccepted(lastOp')
                   /\ modelJobs'[j].provider = "meshy"
                   /\ modelJobs'[j].providerTaskId = lastOp'.requests[1].result
                   /\ modelJobs'[j].providerStatus = "SUBMITTED"
           /\ lastOp'.code = 200
                => /\ StartAccepted(lastOp')
                   /\ modelJobs'[j].status = "processando"
                   /\ modelJobs'[j].providerTaskId = lastOp'.requests[1].result
                   /\ modelJobs'[j].providerStatus = "SUBMITTED"
           /\ lastOp'.code # 200
                => \/ modelJobs'[j] = modelJobs[j]
                   \/ modelJobs'[j].status = "erro" ]_vars

\* the provider answered 200 without a task id to the restart of a started
\* job: the job is in erro and keeps the earlier handle
C22_Witness ==
  /\ lastOp.op = "start" /\ lastOp.code = 502
  /\ Len(lastOp.requests) = 1
  /\ lastOp.requests[1].status = 200
  /\ lastOp.requests[1].result = ""
  /\ lastOp.id \in DOMAIN modelJobs
  /\ modelJobs[lastOp.id].status = "erro"
  /\ modelJobs[lastOp.id].providerStatus = "ERROR_ON_START"
  /\ modelJobs[lastOp.id].providerTaskId = "task-A"

----------------------------------------------------------------------------
(* Unreadable image candidates in SpecStart *)

\* the candidate is a stored path with an image extension whose file is not
\* in the uploads directory
Unreadable(candidate) ==
  /\ candidate # Empty
  /\ ~isRemoteHttpUrl(candidate)
  /\ urlToUploadFilePath(candidate) # Empty
  /\ toLowerCase(candidate.ext) \in IMAGE_EXTENSIONS
  /\ urlToUploadFilePath(candidate) \notin DOMAIN files

\* the candidates of a start of job j
CandidatesOf(j) ==
  Range(modelJobs[j].referenceImages)
  \cup Range(items[modelJobs[j].itemId].scans)
  \cup {items[modelJobs[j].itemId].image}

\* C23 as the specification states it: a start that comes to resolve the
\* images of a job with an unreadable candidate skips that candidate; it does
\* not move the job to erro without having asked the provider, and when it
\* sends nothing it answers 400 image_source_not_found and leaves the job as
\* it was.
C23_AsStated ==
  [][ \A j \in DOMAIN modelJobs :
        ( /\ lastOp'.op = "start" /\ lastOp'.id = j
          /\ lastOp'.error \notin RefusedBeforeImages
          /\ modelJobs[j].itemId \in DOMAIN items
          /\ \E c \in CandidatesOf(j) : Unreadable(c) )
        => /\ modelJobs'[j].status = "erro" => lastOp'.requests # <<>>
           /\ lastOp'.requests = <<>>
                => /\ lastOp'.code = 400
                   /\ lastOp'.error = "image_source_not_found"
                   /\ modelJobs' = modelJobs ]_vars

----------------------------------------------------------------------------
(* SpecLive: the operator keeps pressing Sincronizar.  A started job is    *)
(* polled again and again while the provider reports that the task is      *)
(* running, has failed or has succeeded, or fails to answer; the status is *)
(* also edited by hand and the job is started again.  The sync request is  *)
(* weakly fair: the operator repeats it as long as it can change the job.  *)

LivePolls ==
  {Poll(500, 404, NoTask, DownloadsOk)}
  \cup AnsweredPolls({<<200, 404>>},
                     {Task(w, Empty, Empty) : w \in {"IN_PROGRESS", "PENDING", "FAILED"}}
                     \cup {Task("SUCCEEDED", Str("https://", "assets.meshy.ai", "out", ".glb"),
                                Empty)})

LiveEdits == {EditBody(st, Undefined, Undefined, Absent) : st \in {"triagem", "processando"}}

LiveUpdateJob ==
  \E caller \in {Owner}, jobId \in JobIdPool, body \in LiveEdits :
    UpdateJob(caller, jobId, body)

LiveSyncAi ==
  \E caller \in {Owner}, jobId \in JobIdPool, autoPublish \in {Absent, "true"},
     poll \in LivePolls :
    SyncAi(caller, jobId, autoPublish, poll.respond, poll.dl)

NextLive ==
  \/ PubCreateJob
  \/ PubStartAi
  \/ LiveUpdateJob
  \/ LiveSyncAi

SpecLive == InitPublish /\ [][NextLive]_vars /\ WF_vars(LiveSyncAi)

----------------------------------------------------------------------------
(* Properties of SpecLive *)

\* job j is in processando with a recorded task
Processing(j) ==
  /\ j \in DOMAIN modelJobs
  /\ modelJobs[j].status = "processando"
  /\ modelJobs[j].providerTaskId # ""

\* job j is gone or in revisao, publicado or erro
Settled(j) ==
  j \in DOMAIN modelJobs => modelJobs[j].status \in {"revisao", "publicado", "erro"}

\* the step is not a poll, or the provider answered it with a terminal status
ProviderTerminal ==
  (lastOp'.op = "sync" /\ lastOp'.requests # <<>>)
  => /\ lastOp'.requests[Len(lastOp'.requests)].status = 200
     /\ lastOp'.requests[Len(lastOp'.requests)].result \in Terminal

\* the step is a successful sync of job j, in processando with a task, to
\* which the provider reported a non-terminal status
PolledRunning(j) ==
  /\ Processing(j)
  /\ lastOp'.op = "sync" /\ lastOp'.id = j /\ lastOp'.code = 200
  /\ lastOp'.requests[Len(lastOp'.requests)].result \in NonTerminal

\* C24: when from some point on the provider answers every poll with a
\* terminal status, a job that is in processando with a recorded task is
\* eventually in revisao, publicado or erro; and a successful sync of such a
\* job to which the provider reports a non-terminal status leaves it in
\* processando.
C24_SyncProgress ==
  /\ (<>[][ProviderTerminal]_vars)
       => \A j \in JobIdPool : [](Processing(j) => <>Settled(j))
  /\ [][ \A j \in JobIdPool :
           PolledRunning(j) => /\ j \in DOMAIN modelJobs'
                               /\ modelJobs'[j].status = "processando" ]_vars

\* a poll of a job in processando was told FAILED and the job is in erro
C24_Witness ==
  /\ lastOp.op = "sync" /\ lastOp.code = 200
  /\ lastOp.repeated = FALSE
  /\ lastOp.requests[Len(lastOp.requests)].result = "FAILED"
  /\ lastOp.id \in DOMAIN modelJobs
  /\ modelJobs[lastOp.id].status = "erro"
  /\ modelJobs[lastOp.id].providerTaskId = "task-A"

----------------------------------------------------------------------------
(* SpecRework: jobs that are polled, started and edited after they were    *)
(* finished.  A job is published by auto-publish or by hand, put in        *)
(* triagem, edited without a change, polled while the provider reports a   *)
(* running, failed or finished task, and started again; the item's model   *)
(* is also set directly.                                                   *)

ReworkPolls ==
  AnsweredPolls({<<200, 404>>},
                {Task(w, Empty, Empty) : w \in {"IN_PROGRESS", "FAILED"}}
                \cup {Task("SUCCEEDED", Str("https://", "assets.meshy.ai", "out", ".glb"),
                           Empty)})

ReworkEdits == {EditBody(st, Undefined, Undefined, Absent) : st \in {Absent, "triagem", "PUBLICADO"}}

ReworkUpdateJob ==
  \E caller \in {Owner}, jobId \in JobIdPool, body \in ReworkEdits :
    UpdateJob(caller, jobId, body)

ReworkUpdateItem ==
  \E caller \in {Owner}, itemId \in ItemIdPool, glb \in ItemGlbInputs :
    UpdateItem(caller, itemId, [image |-> Undefined, modelGlb |-> glb, modelUsdz |-> Undefined])

ReworkStartAi ==
  \E caller \in {Owner}, jobId \in JobIdPool, task \in {"task-A", "task-B"} :
    StartAi(caller, jobId, [provider |-> Absent],
            [status |-> 200, payload |-> [result |-> task]])

ReworkSyncAi ==
  \E caller \in {Owner}, jobId \in JobIdPool, autoPublish \in {Absent, "true"},
     poll \in ReworkPolls :
    SyncAi(caller, jobId, autoPublish, poll.respond, poll.dl)

NextRework ==
  \/ PubCreateJob
  \/ ReworkUpdateItem
  \/ ReworkUpdateJob
  \/ ReworkStartAi
  \/ ReworkSyncAi

SpecRework == InitPublish /\ [][NextRework]_vars

----------------------------------------------------------------------------
(* Properties of SpecRework *)

\* the status a successful sync stores, from what the provider reported, the
\* job's autoMode and the request's autoPublish
SyncStatus(word, autoMode, autoPublish) ==
  IF word = "SUCCEEDED" THEN (IF autoMode /\ autoPublish = "true" THEN "publicado" ELSE "revisao")
  ELSE IF word = "FAILED" THEN "erro"
  ELSE "processando"

\* C27: the status a successful sync stores depends on the provider's
\* reported status, autoMode and autoPublish alone, whatever the job's status
\* was: a job in publicado, revisao, erro or triagem goes to processando on a
\* non-terminal report, a published job goes to revisao on success without
\* auto-publish, and the item is as it was unless the job ends in publicado.
C27_SyncIgnoresStatus ==
  [][ \A j \in DOMAIN modelJobs \cap DOMAIN modelJobs' :
        (lastOp'.op = "sync" /\ lastOp'.id = j /\ lastOp'.code = 200)
        => /\ modelJobs'[j].status
                = SyncStatus(lastOp'.requests[Len(lastOp'.requests)].result,
                             modelJobs[j].autoMode, lastOp'.autoPublish)
           /\ modelJobs'[j].status # "publicado" => items' = items ]_vars

\* a poll told that the task is running found the job published with its
\* model on the item: the job is in processando and the item keeps the model
C27_Witness ==
  /\ lastOp.op = "sync" /\ lastOp.code = 200
  /\ lastOp.requests[Len(lastOp.requests)].result = "IN_PROGRESS"
  /\ lastOp.id \in DOMAIN modelJobs
  /\ modelJobs[lastOp.id].status = "processando"
  /\ modelJobs[lastOp.id].modelGlb.dir = "models"
  /\ items[modelJobs[lastOp.id].itemId].modelGlb = modelJobs[lastOp.id].modelGlb

\* C28: a start by the owner is accepted whatever the job's status is: it
\* stores the new task id and processando and leaves modelGlb and modelUsdz
\* as they were; and a later successful sync that is offered a URL for a
\* format the job already holds downloads nothing for it and leaves the
\* field as it was.
C28_RestartKeepsArtifacts ==
  [][ \A j \in DOMAIN modelJobs \cap DOMAIN modelJobs', f \in Formats :
        /\ (lastOp'.op = "start" /\ lastOp'.id = j)
             => /\ lastOp'.code = 200
                /\ modelJobs'[j].status = "processando"
                /\ modelJobs'[j].providerTaskId = lastOp'.requests[1].result
                /\ modelJobs'[j][f] = modelJobs[j][f]
        /\ ( /\ lastOp'.op = "sync" /\ lastOp'.id = j /\ lastOp'.code = 200
             /\ modelJobs[j][f] # Empty )
             => /\ modelJobs'[j][f] = modelJobs[j][f]
                /\ \A k \in 1..Len(lastOp'.downloads) :
                     lastOp'.downloads[k].ext # ExtOf(f) ]_vars

\* a published job that holds a downloaded GLB was started again: it is in
\* processando with the new task and the GLB of the earlier run
C28_Witness ==
  /\ lastOp.op = "start" /\ lastOp.code = 200
  /\ lastOp.id \in DOMAIN modelJobs
  /\ modelJobs[lastOp.id].status = "processando"
  /\ modelJobs[lastOp.id].providerStatus = "SUBMITTED"
  /\ modelJobs[lastOp.id].providerTaskId = "task-B"
  /\ modelJobs[lastOp.id].modelGlb.dir = "models"
  /\ items[modelJobs[lastOp.id].itemId].modelGlb = modelJobs[lastOp.id].modelGlb

\* C30: a direct edit that carries no status, accepted for a job that is in
\* publicado, applies the publish cascade again: the job stays in publicado
\* and each non-empty model field of the job is the linked item's field
\* afterwards, whatever the item held before the edit.
C30_EditRepublishes ==
  [][ \A j \in DOMAIN modelJobs \cap DOMAIN modelJobs', f \in Formats :
        ( /\ lastOp'.op = "updateJob" /\ lastOp'.id = j /\ lastOp'.code = 200
          /\ lastOp'.edit.status = Absent
          /\ modelJobs[j].status = "publicado"
          /\ modelJobs[j].itemId \in DOMAIN items )
        => /\ modelJobs'[j].status = "publicado"
           /\ modelJobs'[j][f] # Empty
                => items'[modelJobs[j].itemId][f] = modelJobs'[j][f]
           /\ modelJobs'[j][f] = Empty
                => items'[modelJobs[j].itemId][f] = items[modelJobs[j].itemId][f] ]_vars

\* an edit without any field of a published job: the item holds the job's
\* downloaded GLB
C30_Witness ==
  /\ lastOp.op = "updateJob" /\ lastOp.code = 200
  /\ lastOp.edit = NoEdit
  /\ lastOp.id \in DOMAIN modelJobs
  /\ modelJobs[lastOp.id].status = "publicado"
  /\ modelJobs[lastOp.id].modelGlb.dir = "models"
  /\ modelJobs[lastOp.id].modelGlb.id # "item"
  /\ items[modelJobs[lastOp.id].itemId].modelGlb = modelJobs[lastOp.id].modelGlb

----------------------------------------------------------------------------
(* SpecRaceStore: a start or a sync of one job waits for the provider      *)
(* while other requests change another job and the item.  The store holds  *)
(* a started job, mj-1, and a second job, mj-2, of the same item.          *)

RaceStartReply == [status |-> 200, payload |-> [result |-> "task-A"]]

\* the start route on the snapshot of request p
RaceStartAi(p) ==
  /\ p.kind = "start"
  /\ IF p.id \notin DOMAIN p.db.modelJobs
       THEN Answered(p, Reply("start", p.id, 404, "job_not_found"))
     ELSE LET job == p.db.modelJobs[p.id]
              providerId == toLowerCase(IF job.provider # "" THEN job.provider ELSE "manual")
              provider == getAiProvider(providerId) IN
          IF ~canAccessRestaurant(Owner, job.restaurantId)
            THEN Answered(p, Reply("start", p.id, 403, "forbidden"))
          ELSE IF job.itemId \notin DOMAIN p.db.items
            THEN Answered(p, Reply("start", p.id, 400, "item_not_found"))
          ELSE IF provider = {}
            THEN Answered(p, Reply("start", p.id, 400, "provider_invalid"))
          ELSE IF \E c \in provider : ~c.enabled
            THEN Answered(p, Reply("start", p.id, 400, "provider_not_configured"))
          ELSE IF providerId # "meshy"
            THEN Answered(p, Reply("start", p.id, 400, "provider_not_implemented"))
          ELSE \E r \in {startJob(p.db.items[job.itemId], job, providerId, RaceStartReply)} :
               LET reply == [Reply("start", p.id, r.code, r.error) EXCEPT
                               !.requests = r.requests, !.images = r.images,
                               !.imagesSent = r.imagesSent] IN
               IF r.written
                 THEN Written(p,
                              [items |-> p.db.items,
                               modelJobs |-> [p.db.modelJobs EXCEPT ![p.id] = r.job]],
                              {}, reply)
                 ELSE Answered(p, reply)

\* the provider reports that the task is running
RaceRunningPoll == Poll(200, 404, Task("IN_PROGRESS", Empty, Empty), DownloadsOk)

TwoJobs ==
  [j \in {"mj-1", "mj-2"} |->
     IF j = "mj-1" THEN StartedJobs["mj-1"]
     ELSE NewJob("r1", "i-1", "upload", "manual", FALSE)]

InitRaceStore ==
  /\ inflight = {}
  /\ meshyKey = TRUE
  /\ items = ItemWithPhoto
  /\ modelJobs = TwoJobs
  /\ files = NoFiles
  /\ lastOp = Reply("init", "", 0, "")

StoreArrive ==
  \/ requireAuth("sync", "mj-1", NoEdit)
  \/ requireAuth("start", "mj-1", NoEdit)

\* requests that do not wait between their read and their write
StoreUpdateItem ==
  \E glb \in ItemGlbInputs \ {Undefined} :
    UpdateItem(Owner, "i-1", [image |-> Undefined, modelGlb |-> glb, modelUsdz |-> Undefined])

StoreUpdateJob ==
  \E st \in {"triagem"} :
    UpdateJob(Owner, "mj-2", EditBody(st, Undefined, Undefined, Absent))

NextRaceStore ==
  \/ StoreArrive
  \/ StoreUpdateItem
  \/ StoreUpdateJob
  \/ \E p \in inflight : RaceSyncWith(p, RaceRunningPoll)
  \/ \E p \in inflight : RaceStartAi(p)

SpecRaceStore == InitRaceStore /\ [][NextRaceStore]_vars

----------------------------------------------------------------------------
(* Properties of SpecRaceStore *)

\* C29: when a start or a sync that read the store at requireAuth writes
\* (answering 200, or 502 from its catch block), every item and every job
\* other than its own is stored as its snapshot holds it, whatever other
\* requests stored in between.
C29_WholeSnapshotWritten ==
  [][ \A p \in inflight \ inflight' :
        (p.kind \in {"start", "sync"} /\ lastOp'.code \in {200, 502})
        => /\ items' = p.db.items
           /\ DOMAIN modelJobs' = DOMAIN p.db.modelJobs
           /\ \A k \in DOMAIN p.db.modelJobs \ {p.id} :
                modelJobs'[k] = p.db.modelJobs[k] ]_vars

\* a sync has written while another request, which read the store before
\* that write, holds mj-2 in triagem and the item with a model: both changes
\* had been stored, and the store now has mj-2 in enviado and the item
\* without a model
C29_Witness ==
  /\ lastOp.op = "sync" /\ lastOp.code = 200
  /\ modelJobs["mj-2"].status = "enviado"
  /\ items["i-1"].modelGlb = Empty
  /\ \E p \in inflight :
       /\ p.db.modelJobs["mj-2"].status = "triagem"
       /\ p.db.items["i-1"].modelGlb.id = "item"

====
